---- MODULE Spec2Model ----
(***************************************************************************)
(* Model of the near_bindgen code generator (near-sdk-macros) and of the   *)
(* entry points it emits.                                                  *)
(*                                                                         *)
(* method_wrapper is a compile-time function from a method descriptor      *)
(* (AttrSigInfo) to the body of the exported entry point.  The emitted     *)
(* body is modelled as a sequence of instructions, one per quoted          *)
(* statement, in the order the quote! blocks splice them.  The state       *)
(* machine below is the host running one such entry point after another    *)
(* against a persisted contract state.                                     *)
(*                                                                         *)
(* The host environment of an invocation (predecessor, attached deposit,   *)
(* input, promise results) is fixed for the invocation but is only         *)
(* revealed by the host call that reads it: the first read of a value      *)
(* chooses it, every later read returns the value already revealed.        *)
(***************************************************************************)
EXTENDS Integers, Sequences, FiniteSets, TLC

\* ------------------------------------------------------------------------
\* Bounds
\* ------------------------------------------------------------------------

\* Largest number of parameters of a modelled method.
MaxArgs == 2

\* Largest number of promise results the host reports to an invocation.
MaxPromises == 2

\* ------------------------------------------------------------------------
\* Bytes and values
\* ------------------------------------------------------------------------

\* ASCII digits '0'..'9'.
Digits == 48 .. 57

\* The bytes of the JSON text null.
JsonNull == <<110, 117, 108, 108>>

\* The u8 values method arguments and return values range over.
U8Values == {7, 255}

\* The unit value and an u8 value, as decoded Rust values.
UnitVal == [ty |-> "unit", n |-> 0]

U8Val(n) == [ty |-> "u8", n |-> n]

DecodeOk(v) == [ok |-> TRUE, val |-> v]

DecodeErr == [ok |-> FALSE, val |-> UnitVal]

\* Value of a run of ASCII digits read as a base-10 number.
RECURSIVE DecimalValue(_)
DecimalValue(data) ==
    IF data = <<>> THEN 0
    ELSE 10 * DecimalValue(SubSeq(data, 1, Len(data) - 1)) + (data[Len(data)] - 48)

\* serde_json's grammar for a number that fits u8: digits only, no leading
\* zero on a multi-digit number, value at most 255.
IsJsonU8(data) ==
    /\ Len(data) >= 1
    /\ Len(data) <= 3
    /\ \A k \in 1 .. Len(data) : data[k] \in Digits
    /\ (Len(data) > 1 => data[1] # 48)
    /\ DecimalValue(data) <= 255

\* near_sdk::serde_json::from_slice::<T>(&data) for T = () and T = u8.
from_slice(ty, data) ==
    IF ty = "unit"
    THEN IF data = JsonNull THEN DecodeOk(UnitVal) ELSE DecodeErr
    ELSE IF IsJsonU8(data) THEN DecodeOk(U8Val(DecimalValue(data))) ELSE DecodeErr

\* near_sdk::borsh::BorshDeserialize::try_from_slice::<T>(&data): the unit
\* type takes no bytes, u8 takes one, and unread bytes are an error.
try_from_slice(ty, data) ==
    IF ty = "unit"
    THEN IF data = <<>> THEN DecodeOk(UnitVal) ELSE DecodeErr
    ELSE IF Len(data) = 1 THEN DecodeOk(U8Val(data[1])) ELSE DecodeErr

\* The expression deserialize_data splices in: the decoder of the
\* parameter's serializer applied to the local `data`.
deserialize_data(serializer_ty, ty, data) ==
    IF serializer_ty = "JSON" THEN from_slice(ty, data) ELSE try_from_slice(ty, data)

\* The failure message of the .expect() deserialize_data attaches.
deserialize_data_msg(serializer_ty) ==
    IF serializer_ty = "JSON"
    THEN "Failed to deserialize callback using JSON"
    ELSE "Failed to deserialize callback using Borsh"

\* Base-10 text of a number below 1000, as serde_json writes an integer.
ToDecimal(n) ==
    IF n < 10 THEN <<48 + n>>
    ELSE IF n < 100 THEN <<48 + (n \div 10), 48 + (n % 10)>>
    ELSE <<48 + (n \div 100), 48 + ((n \div 10) % 10), 48 + (n % 10)>>

\* ------------------------------------------------------------------------
\* Method descriptors (AttrSigInfo, ArgInfo)
\* ------------------------------------------------------------------------

SerializerType == {"JSON", "Borsh"}

MethodType == {"Regular", "View", "Init", "InitIgnoreState"}

\* Parameter names, by position in the parameter list.
Idents == <<"a", "b", "c", "d", "e", "f">>

\* The ASCII byte of the one-letter name of the parameter at position p.
IdentByte(p) == 96 + p

\* The parameter shapes the model ranges over.  A Regular parameter is an u8
\* read from the input; a callback parameter has its own serializer, and a
\* #[callback_result] parameter is Result<(), PromiseError> or
\* Result<u8, PromiseError>.
ArgShapes ==
    {[bindgen_ty |-> "Regular", serializer_ty |-> "JSON", ty |-> "u8"],
     [bindgen_ty |-> "CallbackArg", serializer_ty |-> "JSON", ty |-> "u8"],
     [bindgen_ty |-> "CallbackArg", serializer_ty |-> "Borsh", ty |-> "u8"],
     [bindgen_ty |-> "CallbackResultArg", serializer_ty |-> "JSON", ty |-> "unit"],
     [bindgen_ty |-> "CallbackResultArg", serializer_ty |-> "JSON", ty |-> "u8"],
     [bindgen_ty |-> "CallbackResultArg", serializer_ty |-> "Borsh", ty |-> "unit"],
     [bindgen_ty |-> "CallbackArgVec", serializer_ty |-> "JSON", ty |-> "u8"]}

\* ArgInfo of the parameter at position p.
ArgInfo(p, shape) ==
    [ident |-> Idents[p], bindgen_ty |-> shape.bindgen_ty,
     serializer_ty |-> shape.serializer_ty, ty |-> shape.ty]

\* Every parameter list of exactly n parameters.
ArgListsOfLen(n) ==
    {[p \in 1 .. n |-> ArgInfo(p, shapes[p])] : shapes \in [1 .. n -> ArgShapes]}

\* Every parameter list of at most MaxArgs parameters.
ArgLists == UNION {ArgListsOfLen(n) : n \in 0 .. MaxArgs}

\* Positions of the parameters whose role is one of roles, in declaration order.
RECURSIVE PositionsFrom(_, _, _)
PositionsFrom(args, roles, p) ==
    IF p > Len(args) THEN <<>>
    ELSE (IF args[p].bindgen_ty \in roles THEN <<p>> ELSE <<>>)
         \o PositionsFrom(args, roles, p + 1)

Positions(args, roles) == PositionsFrom(args, roles, 1)

\* AttrSigInfo::input_args: positions of the parameters read from the input.
input_args(args) == Positions(args, {"Regular"})

\* The markers and the signature of a method, apart from its parameters, as
\* they pass the signature analysis: a View method takes &self and is not
\* payable, a constructor has no receiver and returns the contract, and
\* #[handle_result] goes with a Result return type.  Where the result
\* serializer is never used it is left at its default, JSON.
MethodFlags ==
    {f \in [method_type : MethodType,
            is_payable : BOOLEAN,
            is_private : BOOLEAN,
            is_handles_result : BOOLEAN,
            receiver : BOOLEAN,
            returns : {"Default", "Type", "Result"},
            result_serializer : SerializerType] :
        /\ f.method_type = "View" => f.receiver /\ ~f.is_payable
        /\ f.method_type \in {"Init", "InitIgnoreState"} =>
               ~f.receiver /\ f.returns # "Default"
        /\ f.is_handles_result <=> f.returns = "Result"
        /\ (f.returns = "Default" \/ f.method_type \in {"Init", "InitIgnoreState"})
               => f.result_serializer = "JSON"}

\* One plain signature per method type: public, not payable, returning a
\* JSON value, with a receiver where the method type allows one.
PlainFlags ==
    {f \in MethodFlags :
        /\ ~f.is_private /\ ~f.is_payable
        /\ f.returns = "Type" /\ f.result_serializer = "JSON"
        /\ f.method_type = "Regular" => f.receiver}

\* The input serializers of a parameter list: JSON (the default) when no
\* parameter is read from the input.
InputSerializers(args) ==
    IF input_args(args) = <<>> THEN {"JSON"} ELSE SerializerType

\* The AttrSigInfo of a method named m.
Descriptor(f, args, input_serializer) ==
    [ident |-> "m", args |-> args, method_type |-> f.method_type,
     is_payable |-> f.is_payable, is_private |-> f.is_private,
     is_handles_result |-> f.is_handles_result, receiver |-> f.receiver,
     returns |-> f.returns, input_serializer |-> input_serializer,
     result_serializer |-> f.result_serializer]

\* Every descriptor with the given flags and one of the given parameter lists.
Descriptors(flags, lists) ==
    UNION {{Descriptor(f, args, s) : f \in flags, s \in InputSerializers(args)}
           : args \in lists}

\* The methods of the model: every combination of markers on the methods of
\* at most one parameter, and every parameter list of at most MaxArgs
\* parameters on the plain signatures.
AttrSigInfos ==
    Descriptors(MethodFlags, ArgListsOfLen(0) \cup ArgListsOfLen(1))
    \cup Descriptors(PlainFlags, ArgLists)

\* ------------------------------------------------------------------------
\* The code generator: the emitted entry point as a sequence of instructions
\* ------------------------------------------------------------------------

\* One emitted statement.  arg is the position of the parameter it binds
\* (0 if none), idx the promise index it reads, ser and ty the serializer
\* and type it decodes with, bind the local it assigns, msg its panic
\* message.
Instr(op, arg, idx, ser, ty, bind, msg) ==
    [op |-> op, arg |-> arg, idx |-> idx, ser |-> ser, ty |-> ty,
     bind |-> bind, msg |-> msg]

\* Decimal text of a callback index, as format!("{}", idx) prints it.
IdxText == <<"0", "1", "2", "3", "4", "5">>

\* CallbackErrorMsg counting the callbacks from one.
CallbackErrorMsgOneBased(idx) ==
    "Callback computation " \o IdxText[idx + 2] \o " was not successful"

\* format!("Callback computation {} was not successful", idx)
CallbackErrorMsg(idx) ==
    "Callback computation " \o IdxText[idx + 1] \o " was not successful"

\* near_sdk::env::setup_panic_hook();
panic_hook == <<Instr("setup_panic_hook", 0, 0, "", "", "", "")>>

\* if current_account_id() != predecessor_account_id() { panic_str(..) }
is_private_check(m) ==
    IF m.is_private
    THEN <<Instr("is_private_check", 0, 0, "", "", "",
                 "Method " \o m.ident \o " is private")>>
    ELSE <<>>

\* if attached_deposit() != 0 { panic_str(..) }
deposit_check(m) ==
    IF m.is_payable \/ m.method_type = "View"
    THEN <<>>
    ELSE <<Instr("deposit_check", 0, 0, "", "", "",
                 "Method " \o m.ident \o " doesn't accept deposit")>>

\* arg_parsing emitted for every method that has parameters of any role.
arg_parsing_any_args(m) ==
    IF m.args # <<>>
    THEN <<Instr("arg_parsing", 0, 0, m.input_serializer, "", "",
                 IF m.input_serializer = "JSON"
                 THEN "Failed to deserialize input from JSON."
                 ELSE "Failed to deserialize input from Borsh.")>>
    ELSE <<>>

\* let Input { .. } : Input = <decoder>(&env::input().expect(..)).expect(..);
arg_parsing(m) ==
    IF input_args(m.args) # <<>>
    THEN <<Instr("arg_parsing", 0, 0, m.input_serializer, "", "",
                 IF m.input_serializer = "JSON"
                 THEN "Failed to deserialize input from JSON."
                 ELSE "Failed to deserialize input from Borsh.")>>
    ELSE <<>>

\* The statement emitted for the k-th (from 1) element of the filtered and
\* enumerated parameter list: the promise index is the enumeration index.
CallbackInstr(args, p, k) ==
    IF args[p].bindgen_ty = "CallbackArg"
    THEN Instr("callback_arg", p, k - 1, args[p].serializer_ty, args[p].ty, "",
               CallbackErrorMsg(k - 1))
    ELSE Instr(IF args[p].ty = "unit" THEN "callback_result_unit" ELSE "callback_result",
               p, k - 1, args[p].serializer_ty, args[p].ty, "",
               deserialize_data_msg(args[p].serializer_ty))

\* CallbackRoles with the #[callback_vec] parameters kept as well.
CallbackRolesWithVec == {"CallbackArg", "CallbackResultArg", "CallbackArgVec"}

\* The parameters callback_deserialization keeps before it enumerates them.
CallbackRoles == {"CallbackArg", "CallbackResultArg"}

\* callback_deserialization with the statements of the #[callback]
\* parameters emitted before those of the #[callback_result] parameters.
callback_deserialization_singles_first(m) ==
    LET kept == Positions(m.args, {"CallbackArg"})
                \o Positions(m.args, {"CallbackResultArg"})
    IN  [k \in 1 .. Len(kept) |-> CallbackInstr(m.args, kept[k], k)]

\* self.args.iter().filter(..).enumerate().fold(..)
callback_deserialization(m) ==
    LET kept == Positions(m.args, CallbackRoles)
    IN  [k \in 1 .. Len(kept) |-> CallbackInstr(m.args, kept[k], k)]

\* One collecting loop per #[callback_vec] parameter.
callback_vec_deserialization(m) ==
    LET kept == Positions(m.args, {"CallbackArgVec"})
    IN  [k \in 1 .. Len(kept) |->
            Instr("callback_vec", kept[k], 0, m.args[kept[k]].serializer_ty,
                  m.args[kept[k]].ty, "", "")]

\* if env::state_exists() { panic_str("The contract has already been initialized") }
state_check(check_state) ==
    IF check_state
    THEN <<Instr("state_check", 0, 0, "", "", "",
                 "The contract has already been initialized")>>
    ELSE <<>>

\* init_method_wrapper: the body of a constructor's entry point.
init_method_wrapper(m, check_state) ==
    IF m.returns = "Result" /\ m.is_handles_result
    THEN state_check(check_state)
         \o <<Instr("invoke", 0, 0, "", "ctor", "result", ""),
              Instr("match_result", 0, 0, "", "", "contract", ""),
              Instr("state_write", 0, 0, "", "", "", "")>>
    ELSE state_check(check_state)
         \o <<Instr("invoke", 0, 0, "", "ctor", "contract", ""),
              Instr("state_write", 0, 0, "", "", "", "")>>

\* contract_deser reading the state for a method without a receiver too.
contract_deser_static_too(m) == <<Instr("state_read", 0, 0, "", "", "contract", "")>>

\* let contract = env::state_read().unwrap_or_default();
contract_deser(m) ==
    IF m.receiver THEN <<Instr("state_read", 0, 0, "", "", "contract", "")>> ELSE <<>>

\* contract_ser emitted for every method that has a receiver.
contract_ser_any_receiver(m) ==
    IF m.receiver
    THEN <<Instr("state_write", 0, 0, "", "", "", "")>>
    ELSE <<>>

\* env::state_write(&contract);
contract_ser(m) ==
    IF m.receiver /\ m.method_type = "Regular"
    THEN <<Instr("state_write", 0, 0, "", "", "", "")>>
    ELSE <<>>

\* contract.ident(args) or Struct::ident(args)
method_invocation(m, bind) ==
    <<Instr("invoke", 0, 0, "", IF m.receiver THEN "method" ELSE "static", bind, "")>>

\* let result = <encoder>(&result).expect(..);
value_ser(m) ==
    <<Instr("value_ser", 0, 0, m.result_serializer, "", "result",
            IF m.result_serializer = "JSON"
            THEN "Failed to serialize the return value using JSON."
            ELSE "Failed to serialize the return value using Borsh.")>>

\* near_sdk::env::value_return(&result);
value_return == <<Instr("value_return", 0, 0, "", "", "", "")>>

\* ReturnTail with the state written before the value is encoded.
ReturnTailPersistFirst(m) == contract_ser(m) \o value_ser(m) \o value_return

\* The statements of the value-returning branches, from the encoding of the
\* result on.
ReturnTail(m) == value_ser(m) \o value_return \o contract_ser(m)

\* regular_body encoding and returning the unit value of a method without
\* a return type.
regular_body_unit_returned(m) ==
    IF m.returns = "Result" /\ m.is_handles_result
    THEN contract_deser(m) \o method_invocation(m, "result")
         \o <<Instr("match_result", 0, 0, "", "", "result", "")>>
         \o ReturnTail(m)
    ELSE contract_deser(m) \o method_invocation(m, "result") \o ReturnTail(m)

\* The body of the entry point of a Regular or View method.
regular_body(m) ==
    IF m.returns = "Default"
    THEN contract_deser(m) \o method_invocation(m, "") \o contract_ser(m)
    ELSE IF m.returns = "Result" /\ m.is_handles_result
    THEN contract_deser(m) \o method_invocation(m, "result")
         \o <<Instr("match_result", 0, 0, "", "", "result", "")>>
         \o ReturnTail(m)
    ELSE contract_deser(m) \o method_invocation(m, "result") \o ReturnTail(m)

\* body with the state check of #[init] left out.
body_unchecked(m) ==
    IF m.method_type = "Init" THEN init_method_wrapper(m, FALSE)
    ELSE IF m.method_type = "InitIgnoreState" THEN init_method_wrapper(m, FALSE)
    ELSE regular_body(m)

\* body with the state check emitted for #[init(ignore_state)] as well.
body_always_checked(m) ==
    IF m.method_type = "Init" THEN init_method_wrapper(m, TRUE)
    ELSE IF m.method_type = "InitIgnoreState" THEN init_method_wrapper(m, TRUE)
    ELSE regular_body(m)

\* The `body` of method_wrapper, by method type.
body(m) ==
    IF m.method_type = "Init" THEN init_method_wrapper(m, TRUE)
    ELSE IF m.method_type = "InitIgnoreState" THEN init_method_wrapper(m, FALSE)
    ELSE regular_body(m)

\* method_wrapper with the input parsed before the deposit is checked.
method_wrapper_input_first(m) ==
    panic_hook
    \o is_private_check(m)
    \o arg_parsing(m)
    \o deposit_check(m)
    \o callback_deserialization(m)
    \o callback_vec_deserialization(m)
    \o body(m)

\* method_wrapper with the deposit checked before the caller.
method_wrapper_deposit_first(m) ==
    panic_hook
    \o deposit_check(m)
    \o is_private_check(m)
    \o arg_parsing(m)
    \o callback_deserialization(m)
    \o callback_vec_deserialization(m)
    \o body(m)

\* method_wrapper with the body run before the callbacks are resolved.
method_wrapper_body_first(m) ==
    panic_hook
    \o is_private_check(m)
    \o deposit_check(m)
    \o arg_parsing(m)
    \o body(m)
    \o callback_deserialization(m)
    \o callback_vec_deserialization(m)

\* ImplItemMethodInfo::method_wrapper: the statements of the exported
\* extern "C" function, in the order the final quote! splices them.
method_wrapper(m) ==
    panic_hook
    \o is_private_check(m)
    \o deposit_check(m)
    \o arg_parsing(m)
    \o callback_deserialization(m)
    \o callback_vec_deserialization(m)
    \o body(m)

\* ------------------------------------------------------------------------
\* Input payloads
\* ------------------------------------------------------------------------

\* The segments of data between occurrences of the byte sep.
RECURSIVE SplitOn(_, _)
SplitOn(data, sep) ==
    IF \A k \in 1 .. Len(data) : data[k] # sep THEN <<data>>
    ELSE LET k == CHOOSE j \in 1 .. Len(data) :
                      data[j] = sep /\ \A i \in 1 .. j - 1 : data[i] # sep
         IN  <<SubSeq(data, 1, k - 1)>> \o SplitOn(SubSeq(data, k + 1, Len(data)), sep)

\* A JSON value of the modelled grammar: a number or null.
IsJsonValue(data) ==
    \/ data = JsonNull
    \/ /\ Len(data) >= 1
       /\ \A k \in 1 .. Len(data) : data[k] \in Digits
       /\ (Len(data) > 1 => data[1] # 48)

\* A member "k":value with a one-letter key.
IsJsonMember(seg) ==
    /\ Len(seg) >= 5
    /\ seg[1] = 34 /\ seg[2] \in 97 .. 122 /\ seg[3] = 34 /\ seg[4] = 58
    /\ IsJsonValue(SubSeq(seg, 5, Len(seg)))

\* The members of the JSON object data, or <<>> for the empty object.
JsonMembers(data) ==
    LET inner == SubSeq(data, 2, Len(data) - 1)
    IN  IF inner = <<>> THEN <<>> ELSE SplitOn(inner, 44)

\* data is a JSON object of the modelled grammar.
IsJsonObject(data) ==
    /\ Len(data) >= 2
    /\ data[1] = 123 /\ data[Len(data)] = 125
    /\ \A k \in 1 .. Len(JsonMembers(data)) : IsJsonMember(JsonMembers(data)[k])

\* The derived Deserialize of `struct Input`, through serde_json: every field
\* must occur exactly once and hold an u8; unknown members are skipped.
InputFromJson(fields, data) ==
    LET members == JsonMembers(data)
        Hits(p) == {k \in 1 .. Len(members) : members[k][2] = IdentByte(p)}
        Value(p) == LET k == CHOOSE j \in Hits(p) : TRUE
                    IN  SubSeq(members[k], 5, Len(members[k]))
    IN  IF /\ IsJsonObject(data)
           /\ \A f \in 1 .. Len(fields) :
                 Cardinality(Hits(fields[f])) = 1 /\ IsJsonU8(Value(fields[f]))
        THEN [ok |-> TRUE,
              vals |-> [f \in 1 .. Len(fields) |-> U8Val(DecimalValue(Value(fields[f])))]]
        ELSE [ok |-> FALSE, vals |-> <<>>]

\* The derived BorshDeserialize of `struct Input`: one byte per u8 field, in
\* field order, and no byte left over.
InputFromBorsh(fields, data) ==
    IF Len(data) = Len(fields)
    THEN [ok |-> TRUE, vals |-> [f \in 1 .. Len(fields) |-> U8Val(data[f])]]
    ELSE [ok |-> FALSE, vals |-> <<>>]

\* The decoder arg_parsing emits, applied to the input bytes.
InputDecode(serializer, fields, data) ==
    IF serializer = "JSON" THEN InputFromJson(fields, data)
    ELSE InputFromBorsh(fields, data)

\* The text "k":v of one member.
JsonMember(p, n) == <<34, IdentByte(p), 34, 58>> \o ToDecimal(n)

\* Members joined by commas.
RECURSIVE JsonJoin(_, _, _)
JsonJoin(fields, vals, f) ==
    IF f > Len(fields) THEN <<>>
    ELSE (IF f > 1 THEN <<44>> ELSE <<>>)
         \o JsonMember(fields[f], vals[f]) \o JsonJoin(fields, vals, f + 1)

\* json_serialize with the first member lost in the fold.
json_serialize_first_lost(fields, vals) == <<123>> \o JsonJoin(fields, vals, 2) \o <<125>>

\* json_serialize: json!({"a": a, ..}).to_string().into_bytes()
json_serialize(fields, vals) == <<123>> \o JsonJoin(fields, vals, 1) \o <<125>>

\* The Borsh encoding of the Input struct: the u8 fields in order.
borsh_serialize(fields, vals) == [f \in 1 .. Len(fields) |-> vals[f]]

\* input_struct with a field for every parameter, whatever its role.
input_struct_all_args(m) == [p \in 1 .. Len(m.args) |-> p]

\* AttrSigInfo::input_struct: the fields of `struct Input`, one per
\* parameter read from the input, in declaration order and under the
\* parameter's name.
input_struct(m) == input_args(m.args)

\* AttrSigInfo::decomposition_pattern: the names the pattern Input { .. }
\* binds, one per parameter read from the input.
decomposition_pattern(m) == input_args(m.args)

\* marshal_method: the `args` bytes the client function hands to
\* PendingContractTx for the argument values vals, one per field.
marshal_method(m, vals) ==
    IF input_args(m.args) # <<>>
    THEN IF m.input_serializer = "Borsh"
         THEN borsh_serialize(input_args(m.args), vals)
         ELSE json_serialize(input_args(m.args), vals)
    ELSE <<>>

\* The input payloads a caller may send to a method with the given fields:
\* the encoding of every argument tuple, the same with the last argument
\* left out, and no bytes at all.
InputPayloads(serializer, fields) ==
    LET n == Len(fields)
        Enc(fs, vals) == IF serializer = "JSON" THEN json_serialize(fs, vals)
                         ELSE borsh_serialize(fs, vals)
    IN  {Enc(fields, vals) : vals \in [1 .. n -> U8Values]}
        \cup {Enc(SubSeq(fields, 1, n - 1), vals) : vals \in [1 .. n - 1 -> U8Values]}
        \cup {<<>>}

\* What env::input() may return: None or Some(bytes).
InputChoices(serializer, fields) ==
    {[read |-> TRUE, some |-> FALSE, bytes |-> <<>>]}
    \cup {[read |-> TRUE, some |-> TRUE, bytes |-> b] : b \in InputPayloads(serializer, fields)}

\* ------------------------------------------------------------------------
\* The host: state of the contract and of the running entry point
\* ------------------------------------------------------------------------

VARIABLES
    state,      \* persisted contract state: absent, or the Borsh bytes under STATE
    state0,     \* persisted state when the current invocation began
    method,     \* descriptor of the method whose entry point is running
    wrapper,    \* the emitted entry point: method_wrapper(method)
    pc,         \* position of the next statement in wrapper
    status,     \* "idle", "running", "returned" or "aborted"
    iter,       \* loop counter of the running callback_vec loop, -1 outside it
    env,        \* what the host calls of this invocation have revealed
    bound,      \* the local bound to each parameter
    contract,   \* the local `contract`
    result,     \* the local `result`
    output,     \* the values handed to env::value_return
    panic_msg,  \* the message the invocation aborted with
    trace       \* the host calls, decoder calls and the method call, in order

\* The documentation build, a program of its own that runs off the host.
VARIABLES
    operations, \* OpenApiGenerator.operations: path -> (NearMethod, Operation)
    gen_method, \* the implementation of Method last handed to operation_add
    gen_status, \* "collecting", "panicked" or "built"
    gen_panic,  \* the message the build panicked with
    openapi     \* OpenApi.paths of the document into_openapi built

VARIABLES
    method_info, \* the signature last handed to the code generator
    expansion,   \* what the code generator made of method_info
    stub,        \* the account and arguments of the last call of the client function
    pending_tx   \* the PendingContractTx that call returned

VARIABLES
    num,        \* the integer wrapper in hand: its type and the words of its value
    json,       \* the JSON text last written or handed to the deserializer
    de          \* the type the last deserialization was asked for and what it returned

hostvars == <<state, state0, method, wrapper, pc, status, iter, env, bound,
              contract, result, output, panic_msg, trace>>

genvars == <<operations, gen_method, gen_status, gen_panic, openapi>>

macrovars == <<method_info, expansion, stub, pending_tx>>

serdevars == <<num, json, de>>

vars == <<state, state0, method, wrapper, pc, status, iter, env, bound,
          contract, result, output, panic_msg, trace,
          operations, gen_method, gen_status, gen_panic, openapi,
          method_info, expansion, stub, pending_tx,
          num, json, de>>

\* Map::default(): the map without entries.
EmptyMap == [k \in {} |-> {}]

\* OpenApiGenerator::new: no operation collected, no document built.
NewGenerator ==
    /\ operations = EmptyMap
    /\ gen_method = [some |-> FALSE, v |-> <<>>]
    /\ gen_status = "collecting"
    /\ gen_panic = <<>>
    /\ openapi = EmptyMap

\* The account the contract is deployed on, and the possible callers.
CurrentAccount == "contract.near"

Accounts == {"contract.near", "alice.near"}

\* Attached deposits, in yoctoNEAR.
Deposits == {0, 1}

\* Values of the contract struct; Default::default() is 0.
ContractValues == {0, 1}

DefaultContract == [some |-> TRUE, v |-> 0]

NoContract == [some |-> FALSE, v |-> 0]

NoState == [exists |-> FALSE, bytes |-> <<>>]

\* The local `result`: nothing, a plain value, the arms of a Result, or the
\* encoded bytes.
NoResult == [kind |-> "None", n |-> 0, bytes |-> <<>>, err |-> ""]

ResultOf(kind, n) == [kind |-> kind, n |-> n, bytes |-> <<>>, err |-> ""]

\* The error arm of a Result, holding the error err.
ResultErr(err) == [kind |-> "Err", n |-> 0, bytes |-> <<>>, err |-> err]

\* The errors a #[handle_result] method may return, by what they display.
FunctionErrors == {"NotEnoughBalance", "Unauthorized"}

\* The binding of a parameter.
Unbound == [tag |-> "Unbound", val |-> UnitVal, err |-> "", vec |-> <<>>]

BoundValue(v) == [tag |-> "Value", val |-> v, err |-> "", vec |-> <<>>]

BoundOk(v) == [tag |-> "Ok", val |-> v, err |-> "", vec |-> <<>>]

BoundErr(e) == [tag |-> "Err", val |-> UnitVal, err |-> e, vec |-> <<>>]

BoundVec(vs) == [tag |-> "Vec", val |-> UnitVal, err |-> "", vec |-> vs]

\* The payloads of successful promise results: empty, the JSON texts 7 and
\* 8 (the Borsh bytes 55 and 56), and the JSON text null.
Payloads == {<<>>, <<55>>, <<56>>, JsonNull}

\* near_sdk::PromiseResult
PromiseResults ==
    {[tag |-> "NotReady", data |-> <<>>], [tag |-> "Failed", data |-> <<>>]}
    \cup {[tag |-> "Successful", data |-> d] : d \in Payloads}

Unread == [tag |-> "Unread", data |-> <<>>]

\* The host's answer to an index at or beyond promise_results_count().
InvalidIndex == [tag |-> "InvalidPromiseResultIndex", data |-> <<>>]

FreshEnv ==
    [predecessor |-> "", deposit |-> -1,
     input |-> [read |-> FALSE, some |-> FALSE, bytes |-> <<>>],
     count |-> -1,
     results |-> [i \in 0 .. MaxPromises - 1 |-> Unread]]

\* The number of promises the revealed results prove to exist.
RevealedCount ==
    Cardinality({i \in 0 .. MaxPromises - 1 : env.results[i].tag # "Unread"})

\* What the host may answer to promise_results_count(): the count already
\* revealed, or any count the revealed results allow.
CountChoices ==
    IF env.count = -1 THEN RevealedCount .. MaxPromises ELSE {env.count}

\* What the host may answer to promise_result(i): the result already
\* revealed for i, any result if none was and promise i may exist, and an
\* error if promise i may not exist.
ResultChoices(i) ==
    (IF i < MaxPromises /\ (env.count = -1 \/ i < env.count)
     THEN IF env.results[i].tag # "Unread" THEN {env.results[i]} ELSE PromiseResults
     ELSE {})
    \cup
    (IF (env.count = -1 /\ i >= RevealedCount) \/ (env.count # -1 /\ i >= env.count)
     THEN {InvalidIndex}
     ELSE {})

\* The environment after promise_result(i) answered r.
EnvAfterResult(i, r) ==
    IF r = InvalidIndex THEN env ELSE [env EXCEPT !.results[i] = r]

NoMethod ==
    [ident |-> "", args |-> <<>>, method_type |-> "Regular", is_payable |-> FALSE,
     is_private |-> FALSE, is_handles_result |-> FALSE, receiver |-> FALSE,
     returns |-> "Default", input_serializer |-> "JSON", result_serializer |-> "JSON"]

HostInit ==
    /\ state = NoState
    /\ state0 = NoState
    /\ method = NoMethod
    /\ wrapper = <<>>
    /\ pc = 0
    /\ status = "idle"
    /\ iter = -1
    /\ env = FreshEnv
    /\ bound = <<>>
    /\ contract = NoContract
    /\ result = NoResult
    /\ output = <<>>
    /\ panic_msg = ""
    /\ trace = <<>>

\* No entry point is running, and the documentation build is not under way.
\* No expansion has been made and the client function has not been called.
NoExpansion ==
    [error |-> "", tokens |-> <<>>, input |-> <<>>, pattern |-> <<>>,
     client_input |-> <<>>, client_params |-> <<>>, client_expr |-> <<>>]

NoStub == [account_id |-> "", args |-> <<>>]

NoTx == [receiver_id |-> "", method_name |-> "", args |-> <<>>, is_view |-> FALSE]

MacroInit ==
    /\ method_info = NoMethod
    /\ expansion = NoExpansion
    /\ stub = NoStub
    /\ pending_tx = NoTx

\* No wrapper is in hand.
NoNum == [ty |-> "", words |-> <<>>]

\* Nothing has been deserialized.
NoDe == [done |-> FALSE, ty |-> "", ok |-> FALSE, num |-> NoNum]

SerdeInit ==
    /\ num = NoNum
    /\ json = <<>>
    /\ de = NoDe

Init == HostInit /\ NewGenerator /\ MacroInit /\ SerdeInit

\* The statement about to run is an `op`.
At(op) == status = "running" /\ pc <= Len(wrapper) /\ wrapper[pc].op = op

Cur == wrapper[pc]

\* The invocation aborts with msg: nothing else changes.
Abort(msg) ==
    /\ status' = "aborted"
    /\ panic_msg' = msg
    /\ UNCHANGED <<state, state0, method, wrapper, pc, iter, bound, contract,
                   result, output>>

\* Control moves to the next statement.
Advance == pc' = pc + 1 /\ UNCHANGED <<status, panic_msg>>

\* The host dispatches a call to the entry point of m.
Invoke(m) ==
    /\ UNCHANGED <<genvars, macrovars, serdevars>>
    /\ status = "idle"
    /\ method' = m
    /\ wrapper' = method_wrapper(m)
    /\ pc' = 1
    /\ status' = "running"
    /\ bound' = [p \in 1 .. Len(m.args) |-> Unbound]
    /\ state0' = state
    /\ UNCHANGED <<state, iter, env, contract, result, output, panic_msg, trace>>

SetupPanicHook ==
    /\ UNCHANGED <<genvars, macrovars, serdevars>>
    /\ At("setup_panic_hook")
    /\ trace' = Append(trace, <<"setup_panic_hook", 0>>)
    /\ Advance
    /\ UNCHANGED <<state, state0, method, wrapper, iter, env, bound, contract,
                   result, output>>

IsPrivateCheck ==
    /\ UNCHANGED <<genvars, macrovars, serdevars>>
    /\ At("is_private_check")
    /\ \E pred \in Accounts :
        /\ env' = [env EXCEPT !.predecessor = pred]
        /\ trace' = trace \o <<<<"current_account_id", 0>>,
                               <<"predecessor_account_id", 0>>>>
        /\ IF CurrentAccount # pred
           THEN Abort(Cur.msg)
           ELSE /\ Advance
                /\ UNCHANGED <<state, state0, method, wrapper, iter, bound,
                               contract, result, output>>

DepositCheck ==
    /\ UNCHANGED <<genvars, macrovars, serdevars>>
    /\ At("deposit_check")
    /\ \E d \in Deposits :
        /\ env' = [env EXCEPT !.deposit = d]
        /\ trace' = Append(trace, <<"attached_deposit", 0>>)
        /\ IF d # 0
           THEN Abort(Cur.msg)
           ELSE /\ Advance
                /\ UNCHANGED <<state, state0, method, wrapper, iter, bound,
                               contract, result, output>>

ArgParsing ==
    /\ UNCHANGED <<genvars, macrovars, serdevars>>
    /\ At("arg_parsing")
    /\ LET fields == input_struct(method)
           names == decomposition_pattern(method)
       IN  \E inp \in InputChoices(Cur.ser, fields) :
             LET decoded == InputDecode(Cur.ser, fields, inp.bytes)
             IN  /\ env' = [env EXCEPT !.input = inp]
                 /\ IF ~inp.some
                    THEN /\ trace' = Append(trace, <<"input", 0>>)
                         /\ Abort("Expected input since method has arguments.")
                    ELSE /\ trace' = trace \o <<<<"input", 0>>, <<"deserialize", 0>>>>
                         /\ IF ~decoded.ok
                            THEN Abort(Cur.msg)
                            ELSE /\ bound' = [p \in 1 .. Len(bound) |->
                                        IF \E k \in 1 .. Len(names) : names[k] = p
                                        THEN BoundValue(decoded.vals[
                                                 CHOOSE f \in 1 .. Len(fields) : fields[f] = p])
                                        ELSE bound[p]]
                                 /\ Advance
                                 /\ UNCHANGED <<state, state0, method, wrapper, iter,
                                                contract, result, output>>

\* let data = match promise_result(idx) { Successful(x) => x, _ => panic_str(..) };
\* let ident: ty = <decoder>(&data).expect(..);
CallbackArg ==
    /\ UNCHANGED <<genvars, macrovars, serdevars>>
    /\ At("callback_arg")
    /\ \E r \in ResultChoices(Cur.idx) :
         LET decoded == deserialize_data(Cur.ser, Cur.ty, r.data)
         IN  /\ env' = EnvAfterResult(Cur.idx, r)
             /\ IF r.tag = "InvalidPromiseResultIndex"
                THEN /\ trace' = Append(trace, <<"promise_result", Cur.idx>>)
                     /\ Abort(r.tag)
                ELSE IF r.tag # "Successful"
                THEN /\ trace' = Append(trace, <<"promise_result", Cur.idx>>)
                     /\ Abort(Cur.msg)
                ELSE /\ trace' = trace \o <<<<"promise_result", Cur.idx>>,
                                            <<"deserialize", Cur.arg>>>>
                     /\ IF ~decoded.ok
                        THEN Abort(deserialize_data_msg(Cur.ser))
                        ELSE /\ bound' = [bound EXCEPT ![Cur.arg] = BoundValue(decoded.val)]
                             /\ Advance
                             /\ UNCHANGED <<state, state0, method, wrapper, iter,
                                            contract, result, output>>

\* TakesUnitArm without the guard on the payload.
TakesUnitArmUnguarded(op, data) == op = "callback_result_unit"

\* The arms `Successful(data) if data.is_empty() => Ok(())` apply: the
\* statement was emitted for the unit ok type and the payload is empty.
TakesUnitArm(op, data) == op = "callback_result_unit" /\ data = <<>>

\* PromiseErrorOf with the two arms swapped.
PromiseErrorOfSwapped(tag) == IF tag = "NotReady" THEN "Failed" ELSE "NotReady"

\* NotReady => Err(PromiseError::NotReady), Failed => Err(PromiseError::Failed)
PromiseErrorOf(tag) == IF tag = "NotReady" THEN "NotReady" ELSE "Failed"

\* Collected putting the new element first.
CollectedInFront(vec, v) == <<v>> \o vec

\* .collect() of the mapped range: the elements in the order produced.
Collected(vec, v) == Append(vec, v)

\* let ident: ty = match promise_result(idx) {
\*     [Successful(data) if data.is_empty() => Ok(()),]
\*     Successful(data) => Ok(<decoder>(&data).expect(..)),
\*     NotReady => Err(NotReady), Failed => Err(Failed) };
CallbackResult ==
    /\ UNCHANGED <<genvars, macrovars, serdevars>>
    /\ (At("callback_result") \/ At("callback_result_unit"))
    /\ \E r \in ResultChoices(Cur.idx) :
         LET decoded == deserialize_data(Cur.ser, Cur.ty, r.data)
         IN  /\ env' = EnvAfterResult(Cur.idx, r)
             /\ IF r.tag = "InvalidPromiseResultIndex"
                THEN /\ trace' = Append(trace, <<"promise_result", Cur.idx>>)
                     /\ Abort(r.tag)
                ELSE IF r.tag # "Successful" \/ TakesUnitArm(Cur.op, r.data)
                THEN /\ trace' = Append(trace, <<"promise_result", Cur.idx>>)
                     /\ bound' = [bound EXCEPT ![Cur.arg] =
                                     IF r.tag = "Successful" THEN BoundOk(UnitVal)
                                     ELSE BoundErr(PromiseErrorOf(r.tag))]
                     /\ Advance
                     /\ UNCHANGED <<state, state0, method, wrapper, iter,
                                    contract, result, output>>
                ELSE /\ trace' = trace \o <<<<"promise_result", Cur.idx>>,
                                            <<"deserialize", Cur.arg>>>>
                     /\ IF ~decoded.ok
                        THEN Abort(Cur.msg)
                        ELSE /\ bound' = [bound EXCEPT ![Cur.arg] = BoundOk(decoded.val)]
                             /\ Advance
                             /\ UNCHANGED <<state, state0, method, wrapper, iter,
                                            contract, result, output>>

\* (0..promise_results_count()): the range is built, the loop has not run.
CallbackVecBegin ==
    /\ UNCHANGED <<genvars, macrovars, serdevars>>
    /\ At("callback_vec")
    /\ iter = -1
    /\ \E c \in CountChoices :
        /\ env' = [env EXCEPT !.count = c]
        /\ trace' = Append(trace, <<"promise_results_count", 0>>)
        /\ iter' = 0
        /\ bound' = [bound EXCEPT ![Cur.arg] = BoundVec(<<>>)]
        /\ UNCHANGED <<state, state0, method, wrapper, pc, status, contract,
                       result, output, panic_msg>>

\* CallbackVecNext leaving out the result that is not Successful and going
\* on with the next.
CallbackVecNextSkipping ==
    /\ UNCHANGED <<genvars, macrovars, serdevars>>
    /\ At("callback_vec")
    /\ iter >= 0
    /\ iter < env.count
    /\ \E r \in ResultChoices(iter) :
         LET decoded == deserialize_data(Cur.ser, Cur.ty, r.data)
         IN  /\ env' = EnvAfterResult(iter, r)
             /\ IF r.tag # "Successful"
                THEN /\ trace' = Append(trace, <<"promise_result", iter>>)
                     /\ iter' = iter + 1
                     /\ UNCHANGED <<state, state0, method, wrapper, pc, status, bound,
                                    contract, result, output, panic_msg>>
                ELSE /\ trace' = trace \o <<<<"promise_result", iter>>,
                                            <<"deserialize", Cur.arg>>>>
                     /\ IF ~decoded.ok
                        THEN Abort(deserialize_data_msg(Cur.ser))
                        ELSE /\ bound' = [bound EXCEPT ![Cur.arg] =
                                             BoundVec(Collected(@.vec, decoded.val))]
                             /\ iter' = iter + 1
                             /\ UNCHANGED <<state, state0, method, wrapper, pc, status,
                                            contract, result, output, panic_msg>>

\* One application of the closure of .map(|i| ..): fetch result i, panic
\* unless it is Successful, decode its payload.
CallbackVecNext ==
    /\ UNCHANGED <<genvars, macrovars, serdevars>>
    /\ At("callback_vec")
    /\ iter >= 0
    /\ iter < env.count
    /\ \E r \in ResultChoices(iter) :
         LET decoded == deserialize_data(Cur.ser, Cur.ty, r.data)
         IN  /\ env' = EnvAfterResult(iter, r)
             /\ IF r.tag # "Successful"
                THEN /\ trace' = Append(trace, <<"promise_result", iter>>)
                     /\ Abort(CallbackErrorMsg(iter))
                ELSE /\ trace' = trace \o <<<<"promise_result", iter>>,
                                            <<"deserialize", Cur.arg>>>>
                     /\ IF ~decoded.ok
                        THEN Abort(deserialize_data_msg(Cur.ser))
                        ELSE /\ bound' = [bound EXCEPT ![Cur.arg] =
                                             BoundVec(Collected(@.vec, decoded.val))]
                             /\ iter' = iter + 1
                             /\ UNCHANGED <<state, state0, method, wrapper, pc, status,
                                            contract, result, output, panic_msg>>

\* .collect(): the range is exhausted and the vector is bound.
CallbackVecCollect ==
    /\ UNCHANGED <<genvars, macrovars, serdevars>>
    /\ At("callback_vec")
    /\ iter >= 0
    /\ iter >= env.count
    /\ iter' = -1
    /\ Advance
    /\ UNCHANGED <<state, state0, method, wrapper, env, bound, contract, result,
                   output, trace>>

\* if env::state_exists() { panic_str("The contract has already been initialized") }
StateCheck ==
    /\ UNCHANGED <<genvars, macrovars, serdevars>>
    /\ At("state_check")
    /\ trace' = Append(trace, <<"state_exists", 0>>)
    /\ UNCHANGED env
    /\ IF state.exists
       THEN Abort(Cur.msg)
       ELSE /\ Advance
            /\ UNCHANGED <<state, state0, method, wrapper, iter, bound, contract,
                           result, output>>

\* let contract = env::state_read().unwrap_or_default();
StateRead ==
    /\ UNCHANGED <<genvars, macrovars, serdevars>>
    /\ At("state_read")
    /\ trace' = Append(trace, <<"state_read", 0>>)
    /\ contract' = IF state.exists
                   THEN [some |-> TRUE, v |-> try_from_slice("u8", state.bytes).val.n]
                   ELSE DefaultContract
    /\ Advance
    /\ UNCHANGED <<state, state0, method, wrapper, iter, env, bound, result, output>>

\* What the user's method may return: a plain value, or either arm of a
\* Result when the declared return type is one.
ReturnChoices(values) ==
    IF method.returns = "Result"
    THEN {ResultOf("Ok", n) : n \in values} \cup {ResultErr(e) : e \in FunctionErrors}
    ELSE {ResultOf("Val", n) : n \in values}

\* The call of the user's method.  The bound arguments are moved into the
\* call, and what the method does with the host is its own business: the
\* locals and the revealed environment are not tracked past the call.  A
\* constructor returns a contract; a method with a receiver may leave any
\* value in `contract`; any of them may panic.
InvokeMethod ==
    /\ UNCHANGED <<genvars, macrovars, serdevars>>
    /\ At("invoke")
    /\ trace' = Append(trace, <<"invoke", 0>>)
    /\ bound' = [p \in 1 .. Len(bound) |-> Unbound]
    /\ env' = FreshEnv
    /\ \/ /\ status' = "aborted"
          /\ panic_msg' = "panicked in method"
          /\ UNCHANGED <<state, state0, method, wrapper, pc, iter, contract,
                         result, output>>
       \/ /\ Cur.ty = "ctor"
          /\ Cur.bind = "contract"
          /\ \E c \in ContractValues : contract' = [some |-> TRUE, v |-> c]
          /\ Advance
          /\ UNCHANGED <<state, state0, method, wrapper, iter, result, output>>
       \/ /\ Cur.ty = "ctor"
          /\ Cur.bind = "result"
          /\ \E r \in ReturnChoices(ContractValues) : result' = r
          /\ Advance
          /\ UNCHANGED <<state, state0, method, wrapper, iter, contract, output>>
       \/ /\ Cur.ty \in {"method", "static"}
          /\ IF Cur.ty = "method"
             THEN \E c \in ContractValues : contract' = [some |-> TRUE, v |-> c]
             ELSE contract' = contract
          /\ IF Cur.bind = "result"
             THEN \E r \in ReturnChoices(U8Values) : result' = r
             ELSE result' = result
          /\ Advance
          /\ UNCHANGED <<state, state0, method, wrapper, iter, output>>

\* OkArm binding the Result itself.
OkArmWrapped(r) == r

\* The value the arm Ok(result) binds: what the success arm holds.
OkArm(r) == ResultOf("Val", r.n)

\* near_sdk::FunctionError::panic(&err): the panic message is the error's.
FunctionError_panic(r) == r.err

\* match result { Ok(x) => .., Err(err) => near_sdk::FunctionError::panic(&err) }
MatchResult ==
    /\ UNCHANGED <<genvars, macrovars, serdevars>>
    /\ At("match_result")
    /\ UNCHANGED <<env, trace>>
    /\ IF result.kind = "Err"
       THEN Abort(FunctionError_panic(result))
       ELSE /\ IF Cur.bind = "contract"
               THEN contract' = [some |-> TRUE, v |-> result.n] /\ result' = result
               ELSE result' = OkArm(result) /\ contract' = contract
            /\ Advance
            /\ UNCHANGED <<state, state0, method, wrapper, iter, bound, output>>

\* serde_json::to_vec / BorshSerialize::try_to_vec of `result`: an u8 is
\* its decimal text, respectively its byte; Ok(n) of a Result is {"Ok":n},
\* respectively the tag byte 1 followed by n.
to_vec(serializer, r) ==
    IF r.kind = "Ok"
    THEN IF serializer = "JSON"
         THEN <<123, 34, 79, 107, 34, 58>> \o ToDecimal(r.n) \o <<125>>
         ELSE <<1, r.n>>
    ELSE IF serializer = "JSON" THEN ToDecimal(r.n) ELSE <<r.n>>

\* let result = <encoder>(&result).expect(..);
ValueSer ==
    /\ UNCHANGED <<genvars, macrovars, serdevars>>
    /\ At("value_ser")
    /\ result' = [kind |-> "Bytes", n |-> result.n, bytes |-> to_vec(Cur.ser, result),
                   err |-> ""]
    /\ trace' = Append(trace, <<"serialize", 0>>)
    /\ Advance
    /\ UNCHANGED <<state, state0, method, wrapper, iter, env, bound, contract, output>>

\* near_sdk::env::value_return(&result);
ValueReturn ==
    /\ UNCHANGED <<genvars, macrovars, serdevars>>
    /\ At("value_return")
    /\ output' = Append(output, result.bytes)
    /\ trace' = Append(trace, <<"value_return", 0>>)
    /\ Advance
    /\ UNCHANGED <<state, state0, method, wrapper, iter, env, bound, contract, result>>

\* near_sdk::env::state_write(&contract);
StateWrite ==
    /\ UNCHANGED <<genvars, macrovars, serdevars>>
    /\ At("state_write")
    /\ state' = [exists |-> TRUE, bytes |-> <<contract.v>>]
    /\ trace' = Append(trace, <<"state_write", 0>>)
    /\ Advance
    /\ UNCHANGED <<state0, method, wrapper, iter, env, bound, contract, result, output>>

\* The entry point runs off its last statement and returns to the host.
Finish ==
    /\ UNCHANGED <<genvars, macrovars, serdevars>>
    /\ status = "running"
    /\ pc > Len(wrapper)
    /\ status' = "returned"
    /\ UNCHANGED <<state, state0, method, wrapper, pc, iter, env, bound, contract,
                   result, output, panic_msg, trace>>

\* The host is done with the invocation; only the persisted state remains.
Conclude ==
    /\ UNCHANGED <<genvars, macrovars, serdevars>>
    /\ status \in {"returned", "aborted"}
    /\ status' = "idle"
    /\ state0' = state
    /\ method' = NoMethod
    /\ wrapper' = <<>>
    /\ pc' = 0
    /\ iter' = -1
    /\ env' = FreshEnv
    /\ bound' = <<>>
    /\ contract' = NoContract
    /\ result' = NoResult
    /\ output' = <<>>
    /\ panic_msg' = ""
    /\ trace' = <<>>
    /\ UNCHANGED state

Next ==
    \/ status = "idle" /\ \E m \in AttrSigInfos : Invoke(m)
    \/ SetupPanicHook
    \/ IsPrivateCheck
    \/ DepositCheck
    \/ ArgParsing
    \/ CallbackArg
    \/ CallbackResult
    \/ CallbackVecBegin
    \/ CallbackVecNext
    \/ CallbackVecCollect
    \/ StateCheck
    \/ StateRead
    \/ InvokeMethod
    \/ MatchResult
    \/ ValueSer
    \/ ValueReturn
    \/ StateWrite
    \/ Finish
    \/ Conclude

Spec == Init /\ [][Next]_vars

\* ------------------------------------------------------------------------
\* The documentation build: Method constants and the OpenApiGenerator
\* ------------------------------------------------------------------------

\* Largest number of operations one build collects.
MaxOperations == 2

Some(v) == [some |-> TRUE, v |-> v]

None == [some |-> FALSE, v |-> <<>>]

\* The names of the methods handed to the build, as bytes: a, b, ::a, a::b
\* and a_b.  A name is the NAME of an implementation of Method, which the
\* build takes as any string and from which add_operation strips path
\* separators.
Names == {<<97>>, <<98>>, <<58, 58, 97>>, <<97, 58, 58, 98>>, <<97, 95, 98>>}

\* The signatures the build is run on: public, not payable, without
\* #[handle_result], with JSON input (the Input record of a Borsh method
\* has no schema) and at most one parameter.
DocDescriptors ==
    {m \in AttrSigInfos :
        /\ ~m.is_private /\ ~m.is_payable /\ ~m.is_handles_result
        /\ m.input_serializer = "JSON" /\ m.result_serializer = "JSON"
        /\ Len(m.args) <= 1
        /\ m.method_type = "Regular" => m.receiver}

\* let no_args = attr_signature_info.args.is_empty();
no_args(m) == m.args = <<>>

\* let no_return = matches!(returns, ReturnType::Default);
no_return(m) == m.returns = "Default"

\* ReturnType::Type(_, ty): the type the signature declares the method to
\* return, the contract itself for a constructor and a number otherwise.
declared_type(m) ==
    IF m.method_type \in {"Init", "InitIgnoreState"} THEN "Self" ELSE "u8"

\* output_type with the declared type for #[init] as well.
output_type_declared(m) ==
    IF m.returns = "Default" THEN "()" ELSE declared_type(m)

\* output_type: () when there is no return type and for #[init], the
\* declared type otherwise.
output_type(m) ==
    IF m.returns = "Default" THEN "()"
    ELSE IF m.method_type = "Init" THEN "()"
    ELSE declared_type(m)

\* The rows of the properties table of the description.
properties(m) ==
    (IF m.method_type = "Init" THEN <<<<"init", "yes">>>>
     ELSE IF m.method_type = "InitIgnoreState" THEN <<<<"init", "yes (ignore state)">>>>
     ELSE <<>>)
    \o (IF m.method_type # "View"
        THEN <<<<"payable", IF m.is_payable THEN "yes" ELSE "no">>>>
        ELSE <<>>)
    \o (IF m.is_private THEN <<<<"private", "yes">>>> ELSE <<>>)

\* The constants and types of `impl near_sdk::utils::Method for Input` that
\* method_wrapper emits for the method m under the name name.
MethodImpl(m, name) ==
    [NAME |-> name,
     NEAR_METHOD |-> m.method_type,
     DESCRIPTION |-> properties(m),
     RESPONSE_DESCRIPTION |-> output_type(m),
     NO_ARGS |-> no_args(m),
     NO_RETURN |-> no_return(m),
     Input |-> [p \in 1 .. Len(input_struct(m)) |-> Idents[input_struct(m)[p]]],
     Output |-> output_type(m)]

\* The implementations of Method the build may be handed.
MethodImpls == {MethodImpl(m, name) : m \in DocDescriptors, name \in Names}

\* str::trim_start_matches(c)
RECURSIVE trim_start_matches(_, _)
trim_start_matches(str, c) ==
    IF str # <<>> /\ str[1] = c THEN trim_start_matches(Tail(str), c) ELSE str

\* str::replace(from, to): the matches from left to right, not overlapping.
RECURSIVE replace(_, _, _)
replace(str, from, to) ==
    IF Len(str) < Len(from) THEN str
    ELSE IF SubSeq(str, 1, Len(from)) = from
    THEN to \o replace(SubSeq(str, Len(from) + 1, Len(str)), from, to)
    ELSE <<str[1]>> \o replace(Tail(str), from, to)

\* op_id.trim_start_matches(':').replace("::", "_")
normalized(op_id) == replace(trim_start_matches(op_id, 58), <<58, 58>>, <<95>>)

\* create_or_insert_json_schema::<T::Input>(): the schema of the Input
\* record of the method, named "{ident}.Input".
InputSchema(T) == [title |-> T.NAME \o <<46, 73, 110, 112, 117, 116>>, fields |-> T.Input]

\* create_or_insert_json_schema::<T::Output>()
OutputSchema(T) == [title |-> T.Output, fields |-> <<>>]

\* MediaType { schema: Some(schema), ..MediaType::default() } under
\* "application/json".
JsonContent(schema) == [ct \in {"application/json"} |-> [schema |-> Some(schema)]]

\* SchemaObjectExt::into_json_request_body
into_json_request_body(schema, no_args_) ==
    IF no_args_
    THEN [content |-> EmptyMap, required |-> FALSE]
    ELSE [content |-> JsonContent(schema), required |-> TRUE]

\* SchemaObjectExt::into_json_responses
into_json_responses(schema, description, no_return_) ==
    IF no_return_
    THEN [st \in {"204"} |->
             [description |-> IF description = "()" THEN "" ELSE description,
              content |-> EmptyMap]]
    ELSE [st \in {"200"} |->
             [description |-> description, content |-> JsonContent(schema)]]

\* The OperationInfo operation_add hands to add_operation.
OperationInfo(T, tags) ==
    [path |-> <<47>> \o T.NAME,
     method |-> T.NEAR_METHOD,
     operation |->
         [operation_id |-> Some(T.NAME),
          responses |-> into_json_responses(OutputSchema(T), T.RESPONSE_DESCRIPTION,
                                            T.NO_RETURN),
          request_body |-> Some(into_json_request_body(InputSchema(T), T.NO_ARGS)),
          summary |-> Some(T.NAME),
          description |-> Some(T.DESCRIPTION),
          tags |-> tags]]

\* "repeated path: "
RepeatedPath == <<114, 101, 112, 101, 97, 116, 101, 100, 32, 112, 97, 116, 104, 58, 32>>

\* add_operation replacing the entry of an occupied path.
add_operation_overwriting(ops, op) ==
    [panicked |-> FALSE, msg |-> <<>>,
     operations |-> [q \in DOMAIN ops \cup {op.path} |->
                        IF q = op.path
                        THEN [method |-> op.method, operation |-> op.operation]
                        ELSE ops[q]]]

\* OpenApiGenerator::add_operation on the map ops: the operation identifier
\* is normalized, then the entry of op.path is filled if it is vacant and
\* the call panics if it is occupied.
add_operation(ops, op) ==
    LET operation == [op.operation EXCEPT !.operation_id = Some(normalized(@.v))]
    IN  IF op.path \in DOMAIN ops
        THEN [panicked |-> TRUE, msg |-> RepeatedPath \o op.path, operations |-> ops]
        ELSE [panicked |-> FALSE, msg |-> <<>>,
              operations |-> [q \in DOMAIN ops \cup {op.path} |->
                                 IF q = op.path
                                 THEN [method |-> op.method, operation |-> operation]
                                 ELSE ops[q]]]

\* PathItem::default() with an operation in the post slot already.
DefaultPathItemPosted ==
    [get |-> None, put |-> None, post |-> Some(<<>>), delete |-> None,
     options |-> None, head |-> None, patch |-> None, trace |-> None]

\* PathItem::default()
DefaultPathItem ==
    [get |-> None, put |-> None, post |-> None, delete |-> None,
     options |-> None, head |-> None, patch |-> None, trace |-> None]

\* operation_mut sending a View method to the patch slot.
operation_mut_patch(near_method) == IF near_method = "View" THEN "patch" ELSE "post"

\* PathItemExt::operation_mut: the slot of the path item a method goes to.
operation_mut(near_method) == IF near_method = "View" THEN "get" ELSE "post"

\* The loop of into_openapi over the entries todo of ops: each operation
\* replaces the slot of its method in the item of its path, and the loop
\* fails the assertion if the slot was filled.
RECURSIVE into_paths(_, _, _)
into_paths(ops, todo, paths) ==
    IF todo = {} THEN [ok |-> TRUE, paths |-> paths]
    ELSE LET path == CHOOSE q \in todo : TRUE
             item == IF path \in DOMAIN paths THEN paths[path] ELSE DefaultPathItem
             slot == operation_mut(ops[path].method)
         IN  IF item[slot].some
             THEN [ok |-> FALSE, paths |-> paths]
             ELSE into_paths(ops, todo \ {path},
                             [q \in DOMAIN paths \cup {path} |->
                                 IF q = path
                                 THEN [item EXCEPT ![slot] = Some(ops[path].operation)]
                                 ELSE paths[q]])

\* OperationAdd::operation_add::<T>(gen, tags), add_operation included.
OperationAdd(T) ==
    /\ gen_status = "collecting"
    /\ Cardinality(DOMAIN operations) < MaxOperations
    /\ gen_method' = Some(T)
    /\ LET added == add_operation(operations, OperationInfo(T, <<>>))
       IN  /\ operations' = added.operations
           /\ gen_status' = IF added.panicked THEN "panicked" ELSE "collecting"
           /\ gen_panic' = added.msg
    /\ UNCHANGED openapi
    /\ UNCHANGED <<hostvars, macrovars, serdevars>>

\* OpenApiGenerator::into_openapi: the generator is consumed and the
\* document built from the operations it held.
IntoOpenapi ==
    /\ gen_status = "collecting"
    /\ LET built == into_paths(operations, DOMAIN operations, EmptyMap)
       IN  /\ openapi' = built.paths
           /\ gen_status' = IF built.ok THEN "built" ELSE "panicked"
           /\ gen_panic' = IF built.ok THEN <<>> ELSE <<"assertion failed">>
    /\ gen_method' = None
    /\ UNCHANGED operations
    /\ UNCHANGED <<hostvars, macrovars, serdevars>>

\* A build is over, by a panic or with its document; another starts from
\* OpenApiGenerator::new.
NewBuild ==
    /\ gen_status \in {"panicked", "built"}
    /\ operations' = EmptyMap
    /\ gen_method' = None
    /\ gen_status' = "collecting"
    /\ gen_panic' = <<>>
    /\ openapi' = EmptyMap
    /\ UNCHANGED <<hostvars, macrovars, serdevars>>

GenNext ==
    \/ \E T \in MethodImpls : OperationAdd(T)
    \/ IntoOpenapi
    \/ NewBuild

GenSpec == Init /\ [][GenNext]_vars

\* ------------------------------------------------------------------------
\* The code generator run on a signature, and the generated client function
\* ------------------------------------------------------------------------

\* The markers and return types the code generator may be handed: those of
\* MethodFlags, and with them #[handle_result] on any return type, a Result
\* returned without it, and a constructor that returns nothing.
SigFlags ==
    {f \in [method_type : MethodType,
            is_payable : BOOLEAN,
            is_private : BOOLEAN,
            is_handles_result : BOOLEAN,
            receiver : BOOLEAN,
            returns : {"Default", "Type", "Result"},
            result_serializer : {"JSON"}] :
        /\ f.method_type = "View" => f.receiver /\ ~f.is_payable
        /\ f.method_type \in {"Init", "InitIgnoreState"} => ~f.receiver}

\* The names of the methods handed to the code generator.
ItemIdents == {"m", "new"}

\* The signatures handed to the code generator: every combination of
\* markers on the methods of at most one parameter, and every parameter
\* list on the plain signatures.
Items ==
    {[d EXCEPT !.ident = i] :
        d \in Descriptors(SigFlags, ArgListsOfLen(0) \cup ArgListsOfLen(1))
               \cup Descriptors(PlainFlags, ArgLists),
        i \in ItemIdents}

\* The Err of init_method_wrapper, "" when it returns Ok.
init_method_wrapper_err(m) ==
    IF m.returns = "Default" THEN "Init methods must return the contract state"
    ELSE IF m.returns = "Result" /\ m.is_handles_result THEN ""
    ELSE IF m.is_handles_result
    THEN "Method marked with #[handle_result] should return Result<T, E>"
    ELSE ""

\* The compile error method_wrapper returns instead of an entry point, ""
\* when it returns the entry point.
to_compile_error(m) ==
    IF m.method_type \in {"Init", "InitIgnoreState"} THEN init_method_wrapper_err(m)
    ELSE IF m.returns = "Default" THEN ""
    ELSE IF m.returns = "Result" /\ m.is_handles_result THEN ""
    ELSE IF m.is_handles_result
    THEN "Method marked with #[handle_result] should return Result<T, E>."
    ELSE IF m.returns = "Result"
    THEN "Serializing Result<T, E> has been deprecated."
    ELSE ""

\* The names of the parameters at the positions ps.
NamesAt(m, ps) == [k \in 1 .. Len(ps) |-> m.args[ps[k]].ident]

\* AttrSigInfo::pat_type_list: the parameters `name: type` of the client
\* function, one per parameter read from the input.
pat_type_list(m) == input_args(m.args)

\* AttrSigInfo::constructor_expr: the fields of the expression Input { .. }
\* the client function builds, one per parameter read from the input.
constructor_expr(m) == input_args(m.args)

\* What method_wrapper and marshal_method make of the signature m: the
\* compile error or the statements of the entry point, the field names of
\* the Input record in its two modes, the names the entry point's pattern
\* binds, and the parameter names and Input expression of the client
\* function.
Expansion(m) ==
    [error |-> to_compile_error(m),
     tokens |-> IF to_compile_error(m) = "" THEN method_wrapper(m) ELSE <<>>,
     input |-> NamesAt(m, input_struct(m)),
     pattern |-> NamesAt(m, decomposition_pattern(m)),
     client_input |-> NamesAt(m, input_struct(m)),
     client_params |-> NamesAt(m, pat_type_list(m)),
     client_expr |-> NamesAt(m, constructor_expr(m))]

\* is_view true for every method that is not a plain call.
is_view_not_regular(m) == m.method_type # "Regular"

\* let is_view = matches!(method_type, &MethodType::View);
is_view(m) == m.method_type = "View"

\* near_sdk::PendingContractTx::new_from_bytes
new_from_bytes(receiver_id, method_name, args, is_view_) ==
    [receiver_id |-> receiver_id, method_name |-> method_name, args |-> args,
     is_view |-> is_view_]

\* The code generator is run on the signature m, once.
Expand(m) ==
    /\ method_info = NoMethod
    /\ method_info' = m
    /\ expansion' = Expansion(m)
    /\ stub' = NoStub
    /\ pending_tx' = NoTx
    /\ UNCHANGED <<hostvars, genvars, serdevars>>

\* The client function generated for method_info is called on the stub of the
\* account account_id with the argument values vals.
ClientCall(account_id, vals) ==
    /\ method_info # NoMethod
    /\ stub' = [account_id |-> account_id, args |-> vals]
    /\ pending_tx' = new_from_bytes(account_id, method_info.ident,
                                    marshal_method(method_info, vals),
                                    is_view(method_info))
    /\ UNCHANGED <<method_info, expansion>>
    /\ UNCHANGED <<hostvars, genvars, serdevars>>

MacroNext ==
    \/ method_info = NoMethod /\ \E m \in Items : Expand(m)
    \/ \E account_id \in Accounts :
           \E vals \in [1 .. Len(input_args(method_info.args)) -> U8Values] :
               ClientCall(account_id, vals)

MacroSpec == Init /\ [][MacroNext]_vars

\* ------------------------------------------------------------------------
\* The stringified integers: Gas, U64, U128, I64, I128 as JSON
\* ------------------------------------------------------------------------

\* impl_str_type!(U128, u128) .. impl_str_type!(I64, i64), and Gas(pub u64)
IntTypes == {"Gas", "U64", "U128", "I64", "I128"}

\* The size, in 16-bit words, of the integer a wrapper holds.
size_of(ty) == IF ty \in {"U128", "I128"} THEN 8 ELSE 4

\* The integer a wrapper holds is signed.
is_signed_ty(ty) == ty \in {"I64", "I128"}

\* An integer is kept as the 16-bit words of its two's complement
\* representation, least significant first.
IsZero(words) == \A i \in DOMAIN words : words[i] = 0

IsNegative(words) == words[Len(words)] >= 32768

\* words + 1, wrapping.
RECURSIVE wrapping_inc(_)
wrapping_inc(words) ==
    IF words = <<>> THEN <<>>
    ELSE IF words[1] = 65535 THEN <<0>> \o wrapping_inc(Tail(words))
    ELSE <<words[1] + 1>> \o Tail(words)

\* The absolute value of a negative integer as an unsigned one, and back:
\* (!x).wrapping_add(1).
wrapping_neg(words) == wrapping_inc([i \in DOMAIN words |-> 65535 - words[i]])

\* Division of an unsigned integer by 10000, from the most significant word
\* down, rem being the remainder carried in.
RECURSIVE DivRem(_, _)
DivRem(words, rem) ==
    IF words = <<>> THEN [q |-> <<>>, r |-> rem]
    ELSE LET n == Len(words)
             cur == rem * 65536 + words[n]
             rest == DivRem(SubSeq(words, 1, n - 1), cur % 10000)
         IN  [q |-> Append(rest.q, cur \div 10000), r |-> rest.r]

\* The four decimal digits of a number below 10000.
FourDigits(r) ==
    <<48 + (r \div 1000), 48 + ((r \div 100) % 10), 48 + ((r \div 10) % 10), 48 + (r % 10)>>

\* The decimal digits of an unsigned integer, four at a time from the
\* right, the leftmost group being padded with zeros.
RECURSIVE fmt_u(_)
fmt_u(words) ==
    IF IsZero(words) THEN <<>>
    ELSE LET d == DivRem(words, 0) IN fmt_u(d.q) \o FourDigits(d.r)

\* The digits without the zeros they begin with.
RECURSIVE TrimZeros(_)
TrimZeros(digits) ==
    IF Len(digits) > 1 /\ digits[1] = 48 THEN TrimZeros(Tail(digits)) ELSE digits

\* Display of an integer, as self.0.to_string() and write!(w, "{}", self.0)
\* print it.
to_string(ty, words) ==
    IF IsZero(words) THEN <<48>>
    ELSE IF is_signed_ty(ty) /\ IsNegative(words)
    THEN <<45>> \o TrimZeros(fmt_u(wrapping_neg(words)))
    ELSE TrimZeros(fmt_u(words))

\* let mut buf = [0u8; 20];
GasBufLen == 20

\* serializer.serialize_str(s) of serde_json: the text between quotes (the
\* texts written here hold nothing to escape).
serialize_str(str) == <<34>> \o str \o <<34>>

\* Serialize for the wrapper of type ty holding words: the JSON text, or
\* the abort of Gas when the digits do not fit its buffer.
serialize(ty, words) ==
    LET str == to_string(ty, words)
    IN  IF ty = "Gas" /\ Len(str) > GasBufLen
        THEN [ok |-> FALSE, text |-> <<>>]
        ELSE [ok |-> TRUE, text |-> serialize_str(str)]

\* acc * 10 + carry over the words of acc, with the carry that is left.
RECURSIVE MulAdd10(_, _)
MulAdd10(acc, carry) ==
    IF acc = <<>> THEN [v |-> <<>>, carry |-> carry]
    ELSE LET cur == acc[1] * 10 + carry
             rest == MulAdd10(Tail(acc), cur \div 65536)
         IN  [v |-> <<cur % 65536>> \o rest.v, carry |-> rest.carry]

\* The magnitude mag is within the type: at most MAX for a number that is
\* not negative, at most -MIN for a negative one.
InRange(ty, negative, mag) ==
    \/ ~is_signed_ty(ty)
    \/ ~IsNegative(mag)
    \/ negative /\ mag = [i \in DOMAIN mag |-> IF i = Len(mag) THEN 32768 ELSE 0]

\* checked_step without the checks: the multiplication and the addition
\* wrap.
checked_step_wrapping(ty, negative, mag, digit) ==
    [ok |-> TRUE, v |-> MulAdd10(mag, digit).v]

\* One step of the loop of from_str_radix: result.checked_mul(10) and then
\* checked_add(digit), or checked_sub(digit) for a negative number, on the
\* magnitude of the result.
checked_step(ty, negative, mag, digit) ==
    LET m == MulAdd10(mag, digit)
    IN  IF m.carry > 0 \/ ~InRange(ty, negative, m.v)
        THEN [ok |-> FALSE, v |-> mag]
        ELSE [ok |-> TRUE, v |-> m.v]

\* The loop of from_str_radix over the digits.
RECURSIVE ParseDigits(_, _, _, _)
ParseDigits(ty, negative, digits, mag) ==
    IF digits = <<>> THEN [ok |-> TRUE, v |-> mag]
    ELSE IF digits[1] \notin 48 .. 57 THEN [ok |-> FALSE, v |-> mag]
    ELSE LET step == checked_step(ty, negative, mag, digits[1] - 48)
         IN  IF ~step.ok THEN step
             ELSE ParseDigits(ty, negative, Tail(digits), step.v)

\* str::parse::<$ty>(&s): an optional sign, which may be - only for a signed
\* type, and at least one digit.
parse(ty, str) ==
    LET zero == [i \in 1 .. size_of(ty) |-> 0]
        negative == str # <<>> /\ str[1] = 45 /\ is_signed_ty(ty)
        digits == IF str # <<>> /\ (str[1] = 43 \/ negative) THEN Tail(str) ELSE str
        parsed == ParseDigits(ty, negative, digits, zero)
    IN  IF str = <<>> \/ str = <<43>> \/ str = <<45>> THEN [ok |-> FALSE, v |-> zero]
        ELSE IF ~parsed.ok THEN [ok |-> FALSE, v |-> zero]
        ELSE [ok |-> TRUE,
              v |-> IF negative THEN wrapping_neg(parsed.v) ELSE parsed.v]

\* The text is one JSON string without escapes.
IsJsonString(text) ==
    /\ Len(text) >= 2
    /\ text[1] = 34 /\ text[Len(text)] = 34
    /\ \A i \in 2 .. Len(text) - 1 : text[i] >= 32 /\ text[i] \notin {34, 92}

\* Deserialize for the wrapper type ty: a String is read from the JSON text
\* and parsed; an error of either is the error of the deserializer.
deserialize(ty, text) ==
    IF ~IsJsonString(text) THEN [done |-> TRUE, ty |-> ty, ok |-> FALSE, num |-> NoNum]
    ELSE LET r == parse(ty, SubSeq(text, 2, Len(text) - 1))
         IN  IF r.ok
             THEN [done |-> TRUE, ty |-> ty, ok |-> TRUE,
                   num |-> [ty |-> ty, words |-> r.v]]
             ELSE [done |-> TRUE, ty |-> ty, ok |-> FALSE, num |-> NoNum]

\* The values the wrappers are tried on, those of tests::json_ser and of
\* test_u64, test_i64, test_u128 and test_i128 with Gas::ONE_TERA: the
\* 16-bit words of the integer, least significant first, and its decimal text.
IntValues(ty) ==
    IF ty = "Gas" THEN
        {[words |-> <<65535, 65535, 65535, 65535>>,
          text |-> <<49, 56, 52, 52, 54, 55, 52, 52, 48, 55, 51, 55, 48, 57, 53, 53, 49, 54, 49, 53>>],
         [words |-> <<8, 0, 0, 0>>,
          text |-> <<56>>],
         [words |-> <<0, 0, 0, 0>>,
          text |-> <<48>>],
         [words |-> <<4096, 54437, 232, 0>>,
          text |-> <<49, 48, 48, 48, 48, 48, 48, 48, 48, 48, 48, 48, 48>>]}
    ELSE IF ty = "U64" THEN
        {[words |-> <<0, 0, 0, 0>>,
          text |-> <<48>>],
         [words |-> <<1, 0, 0, 0>>,
          text |-> <<49>>],
         [words |-> <<123, 0, 0, 0>>,
          text |-> <<49, 50, 51>>],
         [words |-> <<0, 42852, 46771, 3552>>,
          text |-> <<49, 48, 48, 48, 48, 48, 48, 48, 48, 48, 48, 48, 48, 48, 48, 48, 48, 48, 48>>],
         [words |-> <<0, 0, 0, 4096>>,
          text |-> <<49, 49, 53, 50, 57, 50, 49, 53, 48, 52, 54, 48, 54, 56, 52, 54, 57, 55, 54>>],
         [words |-> <<65535, 65535, 65535, 65535>>,
          text |-> <<49, 56, 52, 52, 54, 55, 52, 52, 48, 55, 51, 55, 48, 57, 53, 53, 49, 54, 49, 53>>]}
    ELSE IF ty = "U128" THEN
        {[words |-> <<0, 0, 0, 0, 0, 0, 0, 0>>,
          text |-> <<48>>],
         [words |-> <<1, 0, 0, 0, 0, 0, 0, 0>>,
          text |-> <<49>>],
         [words |-> <<123, 0, 0, 0, 0, 0, 0, 0>>,
          text |-> <<49, 50, 51>>],
         [words |-> <<0, 42852, 46771, 3552, 0, 0, 0, 0>>,
          text |-> <<49, 48, 48, 48, 48, 48, 48, 48, 48, 48, 48, 48, 48, 48, 48, 48, 48, 48, 48>>],
         [words |-> <<0, 0, 0, 0, 0, 0, 16, 0>>,
          text |-> <<49, 50, 54, 55, 54, 53, 48, 54, 48, 48, 50, 50, 56, 50, 50, 57, 52, 48, 49, 52, 57, 54, 55, 48, 51, 50, 48, 53, 51, 55, 54>>],
         [words |-> <<65535, 65535, 65535, 65535, 65535, 65535, 65535, 65535>>,
          text |-> <<51, 52, 48, 50, 56, 50, 51, 54, 54, 57, 50, 48, 57, 51, 56, 52, 54, 51, 52, 54, 51, 51, 55, 52, 54, 48, 55, 52, 51, 49, 55, 54, 56, 50, 49, 49, 52, 53, 53>>]}
    ELSE IF ty = "I64" THEN
        {[words |-> <<0, 0, 0, 0>>,
          text |-> <<48>>],
         [words |-> <<1, 0, 0, 0>>,
          text |-> <<49>>],
         [words |-> <<65535, 65535, 65535, 65535>>,
          text |-> <<45, 49>>],
         [words |-> <<123, 0, 0, 0>>,
          text |-> <<49, 50, 51>>],
         [words |-> <<0, 42852, 46771, 3552>>,
          text |-> <<49, 48, 48, 48, 48, 48, 48, 48, 48, 48, 48, 48, 48, 48, 48, 48, 48, 48, 48>>],
         [words |-> <<0, 0, 0, 4096>>,
          text |-> <<49, 49, 53, 50, 57, 50, 49, 53, 48, 52, 54, 48, 54, 56, 52, 54, 57, 55, 54>>],
         [words |-> <<0, 0, 0, 61440>>,
          text |-> <<45, 49, 49, 53, 50, 57, 50, 49, 53, 48, 52, 54, 48, 54, 56, 52, 54, 57, 55, 54>>],
         [words |-> <<65535, 65535, 65535, 32767>>,
          text |-> <<57, 50, 50, 51, 51, 55, 50, 48, 51, 54, 56, 53, 52, 55, 55, 53, 56, 48, 55>>],
         [words |-> <<0, 0, 0, 32768>>,
          text |-> <<45, 57, 50, 50, 51, 51, 55, 50, 48, 51, 54, 56, 53, 52, 55, 55, 53, 56, 48, 56>>]}
    ELSE
        {[words |-> <<0, 0, 0, 0, 0, 0, 0, 0>>,
          text |-> <<48>>],
         [words |-> <<1, 0, 0, 0, 0, 0, 0, 0>>,
          text |-> <<49>>],
         [words |-> <<65535, 65535, 65535, 65535, 65535, 65535, 65535, 65535>>,
          text |-> <<45, 49>>],
         [words |-> <<123, 0, 0, 0, 0, 0, 0, 0>>,
          text |-> <<49, 50, 51>>],
         [words |-> <<0, 42852, 46771, 3552, 0, 0, 0, 0>>,
          text |-> <<49, 48, 48, 48, 48, 48, 48, 48, 48, 48, 48, 48, 48, 48, 48, 48, 48, 48, 48>>],
         [words |-> <<0, 0, 0, 0, 0, 0, 16, 0>>,
          text |-> <<49, 50, 54, 55, 54, 53, 48, 54, 48, 48, 50, 50, 56, 50, 50, 57, 52, 48, 49, 52, 57, 54, 55, 48, 51, 50, 48, 53, 51, 55, 54>>],
         [words |-> <<0, 0, 0, 0, 0, 0, 65520, 65535>>,
          text |-> <<45, 49, 50, 54, 55, 54, 53, 48, 54, 48, 48, 50, 50, 56, 50, 50, 57, 52, 48, 49, 52, 57, 54, 55, 48, 51, 50, 48, 53, 51, 55, 54>>],
         [words |-> <<65535, 65535, 65535, 65535, 65535, 65535, 65535, 32767>>,
          text |-> <<49, 55, 48, 49, 52, 49, 49, 56, 51, 52, 54, 48, 52, 54, 57, 50, 51, 49, 55, 51, 49, 54, 56, 55, 51, 48, 51, 55, 49, 53, 56, 56, 52, 49, 48, 53, 55, 50, 55>>],
         [words |-> <<0, 0, 0, 0, 0, 0, 0, 32768>>,
          text |-> <<45, 49, 55, 48, 49, 52, 49, 49, 56, 51, 52, 54, 48, 52, 54, 57, 50, 51, 49, 55, 51, 49, 54, 56, 55, 51, 48, 51, 55, 49, 53, 56, 56, 52, 49, 48, 53, 55, 50, 56>>]}

\* The contents of the JSON strings handed to the deserializers, each with
\* the wrapper types in whose range it is a base-10 integer: the empty
\* string, signs without digits, texts with a letter, a space, a point or an
\* exponent, signed and zero-padded numbers, and the numbers around the
\* limits of the four integer types.
IntTexts ==
    {[text |-> <<>>,
      in_range |-> {}],
     [text |-> <<45>>,
      in_range |-> {}],
     [text |-> <<43>>,
      in_range |-> {}],
     [text |-> <<97, 98, 99>>,
      in_range |-> {}],
     [text |-> <<49, 97>>,
      in_range |-> {}],
     [text |-> <<32, 49>>,
      in_range |-> {}],
     [text |-> <<49, 32>>,
      in_range |-> {}],
     [text |-> <<49, 46, 48>>,
      in_range |-> {}],
     [text |-> <<48, 120, 49, 48>>,
      in_range |-> {}],
     [text |-> <<49, 101, 51>>,
      in_range |-> {}],
     [text |-> <<45, 48>>,
      in_range |-> {"Gas", "U64", "U128", "I64", "I128"}],
     [text |-> <<43, 53>>,
      in_range |-> {"Gas", "U64", "U128", "I64", "I128"}],
     [text |-> <<48, 48, 55>>,
      in_range |-> {"Gas", "U64", "U128", "I64", "I128"}],
     [text |-> <<45, 49>>,
      in_range |-> {"I64", "I128"}],
     [text |-> <<45, 45, 49>>,
      in_range |-> {}],
     [text |-> <<43, 45, 49>>,
      in_range |-> {}],
     [text |-> <<57, 50, 50, 51, 51, 55, 50, 48, 51, 54, 56, 53, 52, 55, 55, 53, 56, 48, 55>>,
      in_range |-> {"Gas", "U64", "U128", "I64", "I128"}],
     [text |-> <<57, 50, 50, 51, 51, 55, 50, 48, 51, 54, 56, 53, 52, 55, 55, 53, 56, 48, 56>>,
      in_range |-> {"Gas", "U64", "U128", "I128"}],
     [text |-> <<45, 57, 50, 50, 51, 51, 55, 50, 48, 51, 54, 56, 53, 52, 55, 55, 53, 56, 48, 56>>,
      in_range |-> {"I64", "I128"}],
     [text |-> <<45, 57, 50, 50, 51, 51, 55, 50, 48, 51, 54, 56, 53, 52, 55, 55, 53, 56, 48, 57>>,
      in_range |-> {"I128"}],
     [text |-> <<49, 56, 52, 52, 54, 55, 52, 52, 48, 55, 51, 55, 48, 57, 53, 53, 49, 54, 49, 53>>,
      in_range |-> {"Gas", "U64", "U128", "I128"}],
     [text |-> <<49, 56, 52, 52, 54, 55, 52, 52, 48, 55, 51, 55, 48, 57, 53, 53, 49, 54, 49, 54>>,
      in_range |-> {"U128", "I128"}],
     [text |-> <<49, 55, 48, 49, 52, 49, 49, 56, 51, 52, 54, 48, 52, 54, 57, 50, 51, 49, 55, 51, 49, 54, 56, 55, 51, 48, 51, 55, 49, 53, 56, 56, 52, 49, 48, 53, 55, 50, 56>>,
      in_range |-> {"U128"}],
     [text |-> <<45, 49, 55, 48, 49, 52, 49, 49, 56, 51, 52, 54, 48, 52, 54, 57, 50, 51, 49, 55, 51, 49, 54, 56, 55, 51, 48, 51, 55, 49, 53, 56, 56, 52, 49, 48, 53, 55, 50, 56>>,
      in_range |-> {"I128"}],
     [text |-> <<45, 49, 55, 48, 49, 52, 49, 49, 56, 51, 52, 54, 48, 52, 54, 57, 50, 51, 49, 55, 51, 49, 54, 56, 55, 51, 48, 51, 55, 49, 53, 56, 56, 52, 49, 48, 53, 55, 50, 57>>,
      in_range |-> {}],
     [text |-> <<51, 52, 48, 50, 56, 50, 51, 54, 54, 57, 50, 48, 57, 51, 56, 52, 54, 51, 52, 54, 51, 51, 55, 52, 54, 48, 55, 52, 51, 49, 55, 54, 56, 50, 49, 49, 52, 53, 53>>,
      in_range |-> {"U128"}],
     [text |-> <<51, 52, 48, 50, 56, 50, 51, 54, 54, 57, 50, 48, 57, 51, 56, 52, 54, 51, 52, 54, 51, 51, 55, 52, 54, 48, 55, 52, 51, 49, 55, 54, 56, 50, 49, 49, 52, 53, 54>>,
      in_range |-> {}]}

\* The JSON texts handed to the deserializers: the strings of IntTexts, and
\* a number that is not in a string.
JsonTexts == {serialize_str(t.text) : t \in IntTexts} \cup {<<53>>}

\* serde_json::to_string(&wrapper) on a wrapper of type ty holding v.
Serialize(ty, v) ==
    /\ num = NoNum /\ json = <<>>
    /\ serialize(ty, v.words).ok
    /\ num' = [ty |-> ty, words |-> v.words]
    /\ json' = serialize(ty, v.words).text
    /\ de' = NoDe
    /\ UNCHANGED <<hostvars, genvars, macrovars>>

\* serde_json::from_str on the text just written.
Deserialize ==
    /\ num # NoNum
    /\ ~de.done
    /\ de' = deserialize(num.ty, json)
    /\ UNCHANGED <<num, json>>
    /\ UNCHANGED <<hostvars, genvars, macrovars>>

\* serde_json::from_str::<ty> on a text from elsewhere.
DeserializeText(ty, text) ==
    /\ num = NoNum /\ json = <<>>
    /\ json' = text
    /\ de' = deserialize(ty, text)
    /\ UNCHANGED num
    /\ UNCHANGED <<hostvars, genvars, macrovars>>

SerdeNext ==
    \/ \E ty \in IntTypes : \E v \in IntValues(ty) : Serialize(ty, v)
    \/ Deserialize
    \/ \E ty \in IntTypes : \E text \in JsonTexts : DeserializeText(ty, text)

SerdeSpec == Init /\ [][SerdeNext]_vars

\* ------------------------------------------------------------------------
\* Properties
\* ------------------------------------------------------------------------

\* The positions of the trace at which `name` was called.
Calls(name) == {k \in 1 .. Len(trace) : trace[k][1] = name}

Called(name) == Calls(name) # {}

\* Every call of `first` comes before every call of `second`.
Before(first, second) == \A i \in Calls(first), j \in Calls(second) : i < j

\* The user's method has been called.
Invoked == Called("invoke")

\* The invocation is over.
Ended == status \in {"returned", "aborted"}

\* The deposit check applies to the running method.
ChecksDeposit == ~method.is_payable /\ method.method_type # "View"

\* C1: when the entry point of a method that is neither payable nor a View
\* is told a nonzero attached deposit, the invocation is aborted with
\* "Method {name} doesn't accept deposit", and neither has the input been
\* read or decoded nor the method been called; in every invocation of such a
\* method the input is read only after the deposit; the entry point of a
\* payable or View method never asks for the attached deposit.
C1_DepositCheck ==
    status # "idle" =>
        /\ (ChecksDeposit /\ env.deposit > 0) =>
               /\ status = "aborted"
               /\ panic_msg = "Method " \o method.ident \o " doesn't accept deposit"
               /\ ~Called("input") /\ ~Called("deserialize") /\ ~Invoked
        /\ ChecksDeposit =>
               /\ Called("input") => Called("attached_deposit")
               /\ Before("attached_deposit", "input")
        /\ ~ChecksDeposit => ~Called("attached_deposit")

\* A constructor that takes input is refused a deposit.
C1_Witness ==
    /\ status = "aborted"
    /\ method.method_type = "Init"
    /\ input_args(method.args) # <<>>
    /\ env.deposit = 1
    /\ panic_msg = "Method m doesn't accept deposit"

\* C2: when the entry point of a private method finds a predecessor other
\* than the contract's own account, the invocation is aborted with
\* "Method {name} is private" before the deposit is asked for, the input
\* read or the method called; in every invocation of a private method the
\* deposit is asked for only after the caller; the entry point of a method
\* that is not private never asks for either account.
C2_PrivateCheck ==
    status # "idle" =>
        /\ (method.is_private /\ env.predecessor \notin {"", CurrentAccount}) =>
               /\ status = "aborted"
               /\ panic_msg = "Method " \o method.ident \o " is private"
               /\ ~Called("attached_deposit") /\ ~Called("input") /\ ~Invoked
        /\ method.is_private =>
               /\ Called("attached_deposit") => Called("predecessor_account_id")
               /\ Before("predecessor_account_id", "attached_deposit")
        /\ ~method.is_private =>
               ~Called("predecessor_account_id") /\ ~Called("current_account_id")

\* A foreign caller of a private method that would also check the deposit.
C2_Witness ==
    /\ status = "aborted"
    /\ method.is_private /\ ChecksDeposit
    /\ env.predecessor = "alice.near"
    /\ panic_msg = "Method m is private"

AlreadyInitialized == "The contract has already been initialized"

\* The messages of the caller and deposit checks.
PolicyMessages ==
    {"Method " \o method.ident \o " is private",
     "Method " \o method.ident \o " doesn't accept deposit"}

\* C3 as stated: an invocation of an Init method made while state exists,
\* and neither turned away for its caller or deposit nor failed by the host
\* itself, ends aborted with the already-initialized message whatever the
\* input and the promise results are, and leaves the state as it was.
C3_Original ==
    (Ended /\ method.method_type = "Init" /\ state0.exists
        /\ panic_msg \notin PolicyMessages
        /\ panic_msg # InvalidIndex.tag) =>
        /\ status = "aborted"
        /\ panic_msg = AlreadyInitialized
        /\ state = state0

\* C3 as amended: an invocation of an Init method made while state exists
\* never returns, never calls the constructor and leaves the state as it
\* was; once it has reached the state check it is aborted with the
\* already-initialized message.  (An earlier step may abort it first, with
\* that step's message.)
C3_InitAborts ==
    (status # "idle" /\ method.method_type = "Init" /\ state0.exists) =>
        /\ status # "returned"
        /\ ~Invoked
        /\ state = state0
        /\ Called("state_exists") =>
               status = "aborted" /\ panic_msg = AlreadyInitialized

\* A constructor whose input decoded is refused because state exists.
C3_Witness ==
    /\ status = "aborted"
    /\ method.method_type = "Init"
    /\ state0.exists
    /\ Called("deserialize")
    /\ panic_msg = AlreadyInitialized

\* The running method is a Regular method with a receiver and a return type.
ReturnsAndPersists ==
    /\ method.method_type = "Regular"
    /\ method.receiver
    /\ method.returns # "Default"

PreDispatchOps ==
    {"is_private_check", "deposit_check", "arg_parsing", "callback_arg",
     "callback_result", "callback_result_unit", "callback_vec"}

\* C5: when an invocation is aborted by the private check, the deposit
\* check, the input parsing or the resolution of a callback parameter, the
\* method has not been called, the persisted state is the state the
\* invocation began with, and nothing was handed to the output channel.
C5_AbortBeforeDispatch ==
    (status = "aborted" /\ wrapper[pc].op \in PreDispatchOps) =>
        /\ ~Invoked
        /\ state = state0
        /\ ~Called("state_write")
        /\ output = <<>>
        /\ ~Called("value_return")

\* A callback_vec loop fails on a contract that has state.
C5_Witness ==
    /\ status = "aborted"
    /\ wrapper[pc].op = "callback_vec"
    /\ state0.exists
    /\ method.method_type = "Regular"

\* The statements that resolve a #[callback_result] parameter.
FallibleOps == {"callback_result", "callback_result_unit"}

\* The result the host has revealed for the promise that statement k reads.
ResultAt(k) == env.results[wrapper[k].idx]

\* The decoder of the parameter of statement k has been called.
DecoderCalled(k) == \E j \in 1 .. Len(trace) : trace[j] = <<"deserialize", wrapper[k].arg>>

\* The messages of a failed #[callback] parameter, by promise index.
ExpectedCallbackMsg ==
    <<"Callback computation 0 was not successful",
      "Callback computation 1 was not successful",
      "Callback computation 2 was not successful",
      "Callback computation 3 was not successful">>

\* C6: when the promise result a #[callback] parameter of callback index i
\* reads is Failed or NotReady, the invocation is aborted at that statement
\* with exactly "Callback computation i was not successful", and the method
\* has not been called.
C6_CallbackSingleAborts ==
    status # "idle" =>
        \A k \in 1 .. Len(wrapper) :
            (/\ wrapper[k].op = "callback_arg"
             /\ wrapper[k].idx < MaxPromises
             /\ ResultAt(k).tag \in {"Failed", "NotReady"}) =>
                /\ status = "aborted"
                /\ pc = k
                /\ panic_msg = ExpectedCallbackMsg[wrapper[k].idx + 1]
                /\ ~Invoked

\* The second callback of a method is not ready.
C6_Witness ==
    /\ status = "aborted"
    /\ wrapper[pc].op = "callback_arg"
    /\ wrapper[pc].idx = 1
    /\ env.results[1].tag = "NotReady"
    /\ panic_msg = "Callback computation 1 was not successful"

\* C7: the promise index of the statement emitted for a #[callback] or
\* #[callback_result] parameter is the number of such parameters declared
\* before it, whatever Regular and #[callback_vec] parameters stand in
\* between; each such parameter has one statement, the k of them use the
\* indices 0 .. k-1, no two the same, and each statement that has run has
\* asked the host for the result of its index.
C7_CallbackIndices ==
    status # "idle" =>
        LET args == method.args
            IsCb(p) == args[p].bindgen_ty \in {"CallbackArg", "CallbackResultArg"}
            CbParams == {p \in 1 .. Len(args) : IsCb(p)}
            CbInstrs == {k \in 1 .. Len(wrapper) :
                            wrapper[k].op \in {"callback_arg"} \cup FallibleOps}
        IN  /\ \A k \in CbInstrs :
                  /\ wrapper[k].arg \in CbParams
                  /\ wrapper[k].idx =
                         Cardinality({q \in CbParams : q < wrapper[k].arg})
                  /\ k < pc => \E j \in 1 .. Len(trace) :
                                   trace[j] = <<"promise_result", wrapper[k].idx>>
            /\ \A p \in CbParams :
                  Cardinality({k \in CbInstrs : wrapper[k].arg = p}) = 1
            /\ {wrapper[k].idx : k \in CbInstrs} = 0 .. Cardinality(CbParams) - 1
            /\ \A k1, k2 \in CbInstrs :
                  wrapper[k1].idx = wrapper[k2].idx => k1 = k2

\* A #[callback] parameter declared after a #[callback_vec] parameter has
\* read promise 0.
C7_Witness ==
    /\ status = "running"
    /\ Len(method.args) = 2
    /\ method.args[1].bindgen_ty = "CallbackArgVec"
    /\ method.args[2].bindgen_ty = "CallbackArg"
    /\ bound[2].tag = "Value"
    /\ trace[2] = <<"promise_result", 0>>

\* C8: when the promise result a #[callback_result] parameter reads is
\* NotReady or Failed, the statement does not abort the invocation: control
\* has moved past it with the parameter bound to Err(NotReady), respectively
\* Err(Failed), and stays so bound up to the call of the method; the
\* parameter is bound to an Ok value only when the result is Successful.
C8_FallibleNeverAborts ==
    status # "idle" =>
        \A k \in 1 .. Len(wrapper) :
            (wrapper[k].op \in FallibleOps /\ wrapper[k].idx < MaxPromises) =>
                LET b == bound[wrapper[k].arg]
                IN  /\ ResultAt(k).tag = "NotReady" =>
                          pc > k /\ b.tag = "Err" /\ b.err = "NotReady"
                    /\ ResultAt(k).tag = "Failed" =>
                          pc > k /\ b.tag = "Err" /\ b.err = "Failed"
                    /\ b.tag = "Ok" => ResultAt(k).tag = "Successful"

\* The method is about to be called with Err(NotReady) and Err(Failed).
C8_Witness ==
    /\ At("invoke")
    /\ Len(bound) = 2
    /\ bound[1].tag = "Err" /\ bound[1].err = "NotReady"
    /\ bound[2].tag = "Err" /\ bound[2].err = "Failed"

\* C9: when the promise result a #[callback_result] parameter reads is
\* Successful: if the ok type is the unit type and the payload is empty, the
\* parameter is bound to Ok(()) and the decoder has not been called for it;
\* otherwise (a non-empty payload, or any payload for another ok type) the
\* decoder has been called, the parameter is bound to Ok of the decoded
\* value if it decodes, and the invocation is aborted at that statement if
\* it does not.
C9_UnitShortcut ==
    status # "idle" =>
        \A k \in 1 .. Len(wrapper) :
            (/\ wrapper[k].op \in FallibleOps
             /\ wrapper[k].idx < MaxPromises
             /\ ResultAt(k).tag = "Successful") =>
                LET p == wrapper[k].arg
                    dec == deserialize_data(method.args[p].serializer_ty,
                                            method.args[p].ty, ResultAt(k).data)
                IN  IF method.args[p].ty = "unit" /\ ResultAt(k).data = <<>>
                    THEN /\ pc > k
                         /\ bound[p] = BoundOk(UnitVal)
                         /\ ~DecoderCalled(k)
                    ELSE /\ DecoderCalled(k)
                         /\ dec.ok => pc > k /\ bound[p] = BoundOk(dec.val)
                         /\ ~dec.ok =>
                                /\ status = "aborted" /\ pc = k /\ ~Invoked
                                /\ panic_msg \in
                                       {"Failed to deserialize callback using JSON",
                                        "Failed to deserialize callback using Borsh"}

\* A Result<(), PromiseError> parameter decoded with JSON is bound to Ok(())
\* from an empty payload.
C9_Witness ==
    /\ At("invoke")
    /\ Len(bound) >= 1
    /\ method.args[1].bindgen_ty = "CallbackResultArg"
    /\ method.args[1].ty = "unit"
    /\ method.args[1].serializer_ty = "JSON"
    /\ env.results[0] = [tag |-> "Successful", data |-> <<>>]
    /\ bound[1] = BoundOk(UnitVal)

\* C10: once the loop of a #[callback_vec] parameter is done, the parameter
\* is bound to a sequence as long as the number of promise results, whose
\* element i is the decoded payload of result i, every result being
\* Successful; and the loop aborts only if some result is not Successful or
\* does not decode.
C10_VectorInOrder ==
    status # "idle" =>
        \A k \in 1 .. Len(wrapper) :
            wrapper[k].op = "callback_vec" =>
                LET p == wrapper[k].arg
                    Dec(i) == deserialize_data(method.args[p].serializer_ty,
                                               method.args[p].ty, env.results[i].data)
                IN  /\ (pc > k /\ bound[p].tag = "Vec") =>
                          /\ env.count >= 0
                          /\ Len(bound[p].vec) = env.count
                          /\ \A i \in 0 .. env.count - 1 :
                                /\ env.results[i].tag = "Successful"
                                /\ Dec(i).ok
                                /\ bound[p].vec[i + 1] = Dec(i).val
                    /\ (status = "aborted" /\ pc = k) =>
                          \E i \in 0 .. env.count - 1 :
                              \/ env.results[i].tag \in {"NotReady", "Failed"}
                              \/ env.results[i].tag = "Successful" /\ ~Dec(i).ok

\* Two promise results, 7 then 8, are collected in that order.
C10_Witness ==
    /\ At("invoke")
    /\ Len(bound) >= 1
    /\ bound[1] = BoundVec(<<U8Val(7), U8Val(8)>>)
    /\ env.count = 2

\* Every parameter of m is read from the input, and there is at least one.
OnlyPlain(m) ==
    /\ Len(m.args) >= 1
    /\ \A p \in 1 .. Len(m.args) : m.args[p].bindgen_ty = "Regular"

\* The position of the arg_parsing statement in the running entry point.
ArgParsingAt == CHOOSE k \in 1 .. Len(wrapper) : wrapper[k].op = "arg_parsing"

\* C11: when the input the entry point of a method with only Plain
\* parameters has read is the payload the client function of that method
\* produces for some argument values, in the method's input format, the
\* input decoder does not fail, the fields of the decoded record are the
\* method's parameters, and from then until the method is called each
\* parameter is bound to the argument value the client encoded for it.
C11_RoundTrip ==
    (status # "idle" /\ OnlyPlain(method) /\ env.input.read /\ env.input.some) =>
        \A vals \in [1 .. Len(method.args) -> U8Values] :
            env.input.bytes = marshal_method(method, vals) =>
                /\ input_struct(method) = [p \in 1 .. Len(method.args) |-> p]
                /\ decomposition_pattern(method) = input_struct(method)
                /\ pc > ArgParsingAt
                /\ \A p \in 1 .. Len(method.args) : bound[p] = BoundValue(U8Val(vals[p]))

\* The method is about to be called with the arguments 255 and 7, which the
\* client encoded as JSON.
C11_Witness ==
    /\ At("invoke")
    /\ OnlyPlain(method)
    /\ method.input_serializer = "JSON"
    /\ Len(method.args) = 2
    /\ env.input.bytes = marshal_method(method, <<255, 7>>)
    /\ bound = <<BoundValue(U8Val(255)), BoundValue(U8Val(7))>>

\* The input decoder has been called.
InputDecoded == \E j \in 1 .. Len(trace) : trace[j] = <<"deserialize", 0>>

\* C12: the entry point of a method without Plain parameters, callback
\* parameters or not, has no input-parsing statement, its input record has
\* no fields, and it never asks the host for the input nor decodes it, so
\* nothing it does depends on the input; when the entry point of a method
\* with a Plain parameter is told there is no input, the invocation is
\* aborted with "Expected input since method has arguments.", nothing has
\* been decoded and the method has not been called.
C12_NoInputWithoutPlain ==
    status # "idle" =>
        /\ input_args(method.args) = <<>> =>
               /\ input_struct(method) = <<>>
               /\ \A k \in 1 .. Len(wrapper) : wrapper[k].op # "arg_parsing"
               /\ ~Called("input")
               /\ ~env.input.read
               /\ ~InputDecoded
        /\ (input_args(method.args) # <<>> /\ env.input.read /\ ~env.input.some) =>
               /\ status = "aborted"
               /\ panic_msg = "Expected input since method has arguments."
               /\ ~InputDecoded
               /\ ~Invoked

\* A method whose only parameter is a #[callback] is about to be called,
\* and the input was never asked for.
C12_Witness ==
    /\ At("invoke")
    /\ Len(method.args) = 1
    /\ method.args[1].bindgen_ty = "CallbackArg"
    /\ bound[1].tag = "Value"
    /\ ~Called("input")

\* C13: an invocation of a View method never writes the persisted state,
\* whatever value the method leaves in its in-memory contract; an
\* invocation of a Regular method with a receiver that returns has written
\* the state exactly once, after the call of the method, and the state
\* written is the contract value the method left.
C13_ViewNeverPersists ==
    status # "idle" =>
        /\ method.method_type = "View" =>
               /\ ~Called("state_write")
               /\ state = state0
        /\ (status = "returned" /\ method.method_type = "Regular" /\ method.receiver) =>
               /\ Cardinality(Calls("state_write")) = 1
               /\ Cardinality(Calls("invoke")) = 1
               /\ Before("invoke", "state_write")
               /\ state = [exists |-> TRUE, bytes |-> <<contract.v>>]

\* A View method has returned leaving 1 in its in-memory contract, and the
\* contract still has no persisted state.
C13_Witness ==
    /\ status = "returned"
    /\ method.method_type = "View"
    /\ contract = [some |-> TRUE, v |-> 1]
    /\ state = NoState

\* C14: an invocation of a Regular or View method that declares no return
\* type never hands a value to the output channel; one that declares a
\* return type and returns has handed exactly one value to it.
C14_EmitsOnce ==
    (status # "idle" /\ method.method_type \in {"Regular", "View"}) =>
        /\ method.returns = "Default" =>
               /\ ~Called("value_return")
               /\ output = <<>>
        /\ (status = "returned" /\ method.returns # "Default") =>
               /\ Cardinality(Calls("value_return")) = 1
               /\ Len(output) = 1

\* A View method returning a Borsh-encoded value has returned with one
\* value on the output channel.
C14_Witness ==
    /\ status = "returned"
    /\ method.method_type = "View"
    /\ method.returns = "Type"
    /\ method.result_serializer = "Borsh"
    /\ Len(output) = 1

\* C15: in an invocation of a #[handle_result] method, once the call has
\* returned the error arm the invocation never returns: it stands at the
\* match or is aborted there with the error's own message, no value has
\* been handed to the output channel and no state written, for a Regular
\* or View method and for a constructor alike; when the invocation
\* returns, the call returned the success arm, and what a Regular or View
\* method has emitted is the encoding of the value inside it, not of the
\* Result, while what a constructor has persisted is the contract inside it.
C15_HandleResult ==
    (status # "idle" /\ method.is_handles_result) =>
        /\ result.kind = "Err" =>
               /\ wrapper[pc].op = "match_result"
               /\ status = "running" \/ (status = "aborted" /\ panic_msg = result.err)
               /\ result.err \in FunctionErrors
               /\ output = <<>> /\ ~Called("value_return")
               /\ state = state0 /\ ~Called("state_write")
        /\ (status = "returned" /\ method.method_type \in {"Regular", "View"}) =>
               /\ result.kind = "Bytes"
               /\ output = <<to_vec(method.result_serializer, ResultOf("Val", result.n))>>
        /\ (status = "returned" /\ method.method_type \in {"Init", "InitIgnoreState"}) =>
               /\ result.kind = "Ok"
               /\ output = <<>>
               /\ state = [exists |-> TRUE, bytes |-> <<result.n>>]

\* A Regular #[handle_result] method on a contract with state returned
\* Err(Unauthorized) and the invocation was aborted with it.
C15_Witness ==
    /\ status = "aborted"
    /\ method.is_handles_result
    /\ method.method_type = "Regular" /\ method.receiver
    /\ state0.exists
    /\ result = ResultErr("Unauthorized")
    /\ panic_msg = "Unauthorized"

\* The running method is a constructor.
IsConstructor == method.method_type \in {"Init", "InitIgnoreState"}

\* What C16 says of each state of an invocation.
C16_Invocation ==
    status # "idle" =>
        /\ method.method_type = "InitIgnoreState" =>
               /\ \A k \in 1 .. Len(wrapper) : wrapper[k].op # "state_check"
               /\ ~Called("state_exists")
        /\ (status = "returned" /\ IsConstructor) =>
               /\ Cardinality(Calls("state_write")) = 1
               /\ Before("invoke", "state_write")
               /\ state = [exists |-> TRUE, bytes |-> <<contract.v>>]
        /\ (status = "returned" /\ method.method_type = "Init") => ~state0.exists
        /\ (method.method_type = "Init" /\ state0.exists) =>
               status # "returned" /\ ~Invoked

\* C16: the entry point of an InitIgnoreState method has no state check and
\* never asks whether state exists; a constructor invocation that returns
\* has written the constructor's result as the persisted state, an
\* InitIgnoreState one whether or not state existed before, an Init one
\* only when none existed; and persisted state, once it exists, exists ever
\* after, so that every Init invocation after a successful one finds state
\* and does not return.
C16_InitIgnoreState ==
    /\ []C16_Invocation
    /\ [][state.exists => state'.exists]_vars

\* An InitIgnoreState constructor has replaced existing state by another.
C16_Witness ==
    /\ status = "returned"
    /\ method.method_type = "InitIgnoreState"
    /\ state0.exists
    /\ state.exists
    /\ state # state0

\* The step is a call of operation_add for the method T.
AddStep(T) == gen_status = "collecting" /\ gen_method' = Some(T)

\* C17: a call of add_operation for a path the map already holds panics
\* with "repeated path: " followed by the path and leaves the map as it
\* was, the entry of that path included; a call for a path the map does
\* not hold adds an entry for it and changes no other entry.
C17_RepeatedPathPanics ==
    [][\A T \in MethodImpls :
          AddStep(T) =>
              LET path == OperationInfo(T, <<>>).path
              IN  IF path \in DOMAIN operations
                  THEN /\ gen_status' = "panicked"
                       /\ gen_panic' = RepeatedPath \o path
                       /\ operations' = operations
                       /\ operations'[path] = operations[path]
                  ELSE /\ gen_status' = "collecting"
                       /\ DOMAIN operations' = DOMAIN operations \cup {path}
                       /\ \A q \in DOMAIN operations : operations'[q] = operations[q]
                       /\ operations'[path].method = T.NEAR_METHOD]_vars

\* Adding a Regular method named a, where the View method a was added
\* first, has panicked, and /a still holds the View method.
C17_Witness ==
    /\ gen_status = "panicked"
    /\ DOMAIN operations = {<<47, 97>>}
    /\ operations[<<47, 97>>].method = "View"
    /\ gen_method.some
    /\ gen_method.v.NAME = <<97>>
    /\ gen_method.v.NEAR_METHOD = "Regular"
    /\ gen_panic = RepeatedPath \o <<47, 97>>

\* C18: the document into_openapi builds has one path per collected
\* operation, /{name}; the item of a View method holds the operation in its
\* get slot and nothing in any other slot, the item of a Regular, Init or
\* InitIgnoreState method holds it in its post slot and nothing in any
\* other.  (So a View method a and a Regular method b give the paths /a,
\* with a GET only, and /b, with a POST only.)
C18_VerbByKind ==
    gen_status = "built" =>
        /\ DOMAIN openapi = DOMAIN operations
        /\ \A path \in DOMAIN openapi :
              LET item == openapi[path]
                  verb == IF operations[path].method = "View" THEN "get" ELSE "post"
              IN  /\ operations[path].method \in MethodType
                  /\ path = <<47>> \o operations[path].operation.summary.v
                  /\ item[verb] = Some(operations[path].operation)
                  /\ \A slot \in DOMAIN item \ {verb} : item[slot] = None

\* The document built from the View method a and the Regular method b.
C18_Witness ==
    /\ gen_status = "built"
    /\ DOMAIN openapi = {<<47, 97>>, <<47, 98>>}
    /\ operations[<<47, 97>>].method = "View"
    /\ operations[<<47, 98>>].method = "Regular"
    /\ openapi[<<47, 97>>].get.some /\ ~openapi[<<47, 97>>].post.some
    /\ openapi[<<47, 98>>].post.some /\ ~openapi[<<47, 98>>].get.some

\* C19 as stated: no two operations the build has collected carry the same
\* normalized operation identifier, a second method whose name normalizes
\* to the identifier of a collected one being refused as a repeated path.
C19_Original ==
    \A p, q \in DOMAIN operations :
        p # q => operations[p].operation.operation_id # operations[q].operation.operation_id

\* C20 as stated: the operation recorded for a method carries a
\* request-body schema exactly when the method has a Plain parameter, that
\* is, when its Input record has a field.
C20_Original ==
    (gen_status = "collecting" /\ gen_method.some) =>
        LET T == gen_method.v
            request_body == operations[OperationInfo(T, <<>>).path].operation.request_body.v
        IN  (request_body.content # EmptyMap) <=> (T.Input # <<>>)

\* The entry the build recorded for the method it was last handed.
AddedEntry == operations[<<47>> \o gen_method.v.NAME]

\* The build was last handed the implementation of Method emitted for the
\* signature m, and recorded it.
Recorded(m) ==
    /\ gen_status = "collecting"
    /\ gen_method.some
    /\ \E name \in Names : gen_method.v = MethodImpl(m, name)

\* The responses of an operation carry no content at all.
NoContent(responses) == \A st \in DOMAIN responses : responses[st].content = EmptyMap

\* The responses of an operation are one response, of the status st, whose
\* JSON content has the schema of the type ty.
RespondsWith(responses, st, ty) ==
    /\ DOMAIN responses = {st}
    /\ DOMAIN responses[st].content = {"application/json"}
    /\ responses[st].content["application/json"].schema = Some([title |-> ty, fields |-> <<>>])

\* C21 as stated: the operation recorded for a method without a return type
\* has a response without content, and the operation recorded for a method
\* with a return type, of whatever method type, has a response whose schema
\* is that of the declared return type.
C21_Original ==
    \A m \in DocDescriptors :
        Recorded(m) =>
            IF m.returns = "Default"
            THEN NoContent(AddedEntry.operation.responses)
            ELSE RespondsWith(AddedEntry.operation.responses, "200", declared_type(m))

\* C21 as amended: the operation recorded for a method without a return
\* type has the one response 204 without content; the operation recorded
\* for a method with a return type has the one response 200 with a JSON
\* schema, which is the schema of the declared return type for a Regular,
\* View or InitIgnoreState method and the schema of the unit type for an
\* Init method.
C21_ResponseSchema ==
    \A m \in DocDescriptors :
        Recorded(m) =>
            IF m.returns = "Default"
            THEN /\ DOMAIN AddedEntry.operation.responses = {"204"}
                 /\ NoContent(AddedEntry.operation.responses)
            ELSE RespondsWith(AddedEntry.operation.responses, "200",
                              IF m.method_type = "Init" THEN "()" ELSE declared_type(m))

\* An Init method and a method without a return type have been recorded in
\* one build, the first with the schema of the unit type.
C21_Witness ==
    /\ gen_status = "collecting"
    /\ \E p, q \in DOMAIN operations :
           /\ operations[p].method = "Init"
           /\ RespondsWith(operations[p].operation.responses, "200", "()")
           /\ operations[q].method = "Regular"
           /\ DOMAIN operations[q].operation.responses = {"204"}

\* The statements of the expansion that encode a value, hand it to the host
\* or write the state.
EmitsOrPersists ==
    \E k \in 1 .. Len(expansion.tokens) :
        expansion.tokens[k].op \in {"value_ser", "value_return", "state_write"}

\* C22 as stated: for a method of any method type that returns a Result
\* without #[handle_result], the code generator returns a compile error and
\* no entry point that encodes or persists a value; for a method marked
\* #[handle_result] whose return type is not a Result, it returns a compile
\* error as well.
C22_Original ==
    method_info # NoMethod =>
        /\ (method_info.returns = "Result" /\ ~method_info.is_handles_result) =>
               expansion.error # "" /\ ~EmitsOrPersists
        /\ (method_info.is_handles_result /\ method_info.returns # "Result") =>
               expansion.error # ""

\* The positions of the #[callback_vec] parameters of m.
VecParams(m) == {p \in 1 .. Len(m.args) : m.args[p].bindgen_ty = "CallbackArgVec"}

\* C23 as stated: an entry point has at most one loop over the promise
\* results, and no method is ever about to be called with two of its
\* #[callback_vec] parameters each bound to the whole sequence of promise
\* results.
C23_Original ==
    status # "idle" =>
        /\ Cardinality({k \in 1 .. Len(wrapper) : wrapper[k].op = "callback_vec"}) <= 1
        /\ ~(\E p, q \in VecParams(method) :
                /\ p # q
                /\ At("invoke")
                /\ env.count > 0
                /\ bound[p].tag = "Vec" /\ Len(bound[p].vec) = env.count
                /\ bound[q].tag = "Vec" /\ Len(bound[q].vec) = env.count)

\* The client function generated for method_info has been called.
ClientCalled == stub # NoStub

\* The positions of the Plain parameters of m.
PlainParams(m) == {p \in 1 .. Len(m.args) : m.args[p].bindgen_ty = "Regular"}

\* C24: the PendingContractTx the generated client function returns holds
\* the account of the stub it was called on, the name of the method, a
\* read-only flag that is true for a View method and false for a Regular,
\* Init or InitIgnoreState method, and as payload the empty byte sequence if
\* the method has no Plain parameter and otherwise bytes that decode, in the
\* method's input format, to the argument values the function was given.
C24_CallDescriptor ==
    ClientCalled =>
        /\ pending_tx.receiver_id = stub.account_id
        /\ pending_tx.method_name = method_info.ident
        /\ method_info.method_type = "View" => pending_tx.is_view
        /\ method_info.method_type \in {"Regular", "Init", "InitIgnoreState"} =>
               ~pending_tx.is_view
        /\ PlainParams(method_info) = {} => pending_tx.args = <<>>
        /\ PlainParams(method_info) # {} =>
               LET fields == input_struct(method_info)
                   decoded == InputDecode(method_info.input_serializer, fields,
                                          pending_tx.args)
               IN  /\ pending_tx.args # <<>>
                   /\ decoded.ok
                   /\ Len(stub.args) = Cardinality(PlainParams(method_info))
                   /\ \A f \in 1 .. Len(fields) : decoded.vals[f] = U8Val(stub.args[f])

\* The client function of a View method named new, whose first parameter is
\* a callback result and whose second is read from the input, was called on
\* the stub of alice.near with 255.
C24_Witness ==
    /\ ClientCalled
    /\ method_info.ident = "new"
    /\ method_info.method_type = "View"
    /\ Len(method_info.args) = 2
    /\ method_info.args[1].bindgen_ty = "CallbackArg"
    /\ method_info.args[2].bindgen_ty = "Regular"
    /\ method_info.input_serializer = "JSON"
    /\ stub = [account_id |-> "alice.near", args |-> <<255>>]
    /\ pending_tx.is_view
    /\ pending_tx.receiver_id = "alice.near"
    /\ pending_tx.args = <<123, 34, 98, 34, 58, 50, 53, 53, 125>>

\* The position of the parameter of m named name.
PositionOf(m, name) == CHOOSE p \in 1 .. Len(m.args) : m.args[p].ident = name

\* The names are those of the Plain parameters of m, each once, in the
\* order of declaration.
PlainInOrder(m, names) ==
    /\ Len(names) = Cardinality(PlainParams(m))
    /\ \A k \in 1 .. Len(names) :
           \E p \in PlainParams(m) : names[k] = m.args[p].ident
    /\ \A j, k \in 1 .. Len(names) :
           j < k => PositionOf(m, names[j]) < PositionOf(m, names[k])

\* C25: the Input record the code generator synthesizes for a signature,
\* for decoding and for encoding alike, has one field per Plain parameter
\* and none for a callback parameter, named as the parameter and in the
\* order of declaration; the parameter list of the client function and the
\* pattern the entry point destructures the record with list the same names
\* in the same order.
C25_InputRecord ==
    method_info # NoMethod =>
        /\ PlainInOrder(method_info, expansion.input)
        /\ PlainInOrder(method_info, expansion.client_input)
        /\ expansion.client_params = expansion.input
        /\ expansion.client_expr = expansion.input
        /\ expansion.pattern = expansion.input

\* The signature of an Init method with a #[callback_vec] parameter a and
\* a Plain parameter b has been expanded: the record has the one field b.
C25_Witness ==
    /\ method_info.method_type = "Init"
    /\ Len(method_info.args) = 2
    /\ method_info.args[1].bindgen_ty = "CallbackArgVec"
    /\ method_info.args[2].bindgen_ty = "Regular"
    /\ expansion.error = ""
    /\ expansion.input = <<"b">>
    /\ expansion.pattern = <<"b">>
    /\ expansion.client_params = <<"b">>

\* The positions of the parameters of the running method with one of the
\* roles.
RoleParams(roles) ==
    {p \in 1 .. Len(method.args) : method.args[p].bindgen_ty \in roles}

\* The entry point has bound the parameter at position p, or has begun to
\* collect it.
Resolved(p) == bound[p] # Unbound

\* The callbacks are being resolved, or the invocation was aborted while
\* they were.
Resolving == status \in {"running", "aborted"} /\ ~Invoked

\* C27 as stated: while the entry point resolves the callbacks, a
\* #[callback] parameter is resolved only after the #[callback] parameters
\* declared before it, a #[callback_result] parameter only after every
\* #[callback] parameter, wherever it is declared, and a #[callback_vec]
\* parameter only after every parameter of the other two roles.
C27_Original ==
    Resolving =>
        /\ \A p, q \in RoleParams({"CallbackArg"}) :
               (q < p /\ Resolved(p)) => Resolved(q)
        /\ \A p \in RoleParams({"CallbackResultArg"}), q \in RoleParams({"CallbackArg"}) :
               Resolved(p) => Resolved(q)
        /\ \A p \in RoleParams({"CallbackArgVec"}),
              q \in RoleParams({"CallbackArg", "CallbackResultArg"}) :
               Resolved(p) => Resolved(q)

\* C27 as amended: the #[callback] and #[callback_result] parameters are
\* resolved in one pass, in the order of declaration, which is the order of
\* their callback indices; the entry point goes past a #[callback]
\* parameter only if its promise result is Successful; a #[callback_vec]
\* parameter is resolved only after every parameter of the other two roles,
\* wherever it is declared.
C27_CallbackOrder ==
    Resolving =>
        /\ \A p, q \in RoleParams({"CallbackArg", "CallbackResultArg"}) :
               (q < p /\ Resolved(p)) => Resolved(q)
        /\ \A j, k \in 1 .. Len(wrapper) :
               (j < k /\ wrapper[j].op \in {"callback_arg", "callback_result",
                                             "callback_result_unit"}
                      /\ wrapper[k].op \in {"callback_arg", "callback_result",
                                             "callback_result_unit"}) =>
                   wrapper[j].idx < wrapper[k].idx
        /\ \A k \in 1 .. Len(wrapper) :
               (wrapper[k].op = "callback_arg" /\ pc > k) =>
                   env.results[wrapper[k].idx].tag = "Successful"
        /\ \A p \in RoleParams({"CallbackArgVec"}),
              q \in RoleParams({"CallbackArg", "CallbackResultArg"}) :
               Resolved(p) => Resolved(q)

\* The #[callback_result] parameter a, declared first, is resolved and the
\* #[callback] parameter b, declared second, is about to be.
C27_Witness ==
    /\ At("callback_arg")
    /\ Len(method.args) = 2
    /\ method.args[1].bindgen_ty = "CallbackResultArg"
    /\ method.args[2].bindgen_ty = "CallbackArg"
    /\ Cur.arg = 2 /\ Cur.idx = 1
    /\ Resolved(1) /\ ~Resolved(2)

\* The entry point is in the loop of a #[callback_vec] parameter, or was
\* aborted in it.
InLoop ==
    /\ status \in {"running", "aborted"}
    /\ pc \in 1 .. Len(wrapper)
    /\ wrapper[pc].op = "callback_vec"
    /\ iter >= 0

\* The position in the trace at which the current loop asked for the number
\* of promise results.
LoopStart ==
    CHOOSE k \in Calls("promise_results_count") :
        \A j \in Calls("promise_results_count") : j <= k

\* The host calls of the current loop named name, in the order made.
LoopCalls(name) ==
    SelectSeq(SubSeq(trace, LoopStart + 1, Len(trace)), LAMBDA e : e[1] = name)

\* C28: the loop of a #[callback_vec] parameter fetches the promise results
\* in ascending index order from 0 and goes past an index only if its result
\* is Successful; when the result it has fetched at index i is NotReady or
\* Failed the invocation is aborted with "Callback computation i was not
\* successful", the loop has fetched the indices 0 to i and no other, has
\* decoded the i results before it and not that one, and the method has not
\* been called.
C28_VectorAbort ==
    InLoop =>
        /\ \A j \in 0 .. iter - 1 : env.results[j].tag = "Successful"
        /\ status = "running" =>
               LoopCalls("promise_result") = [j \in 1 .. iter |-> <<"promise_result", j - 1>>]
        /\ (status = "aborted" /\ env.results[iter].tag \in {"NotReady", "Failed"}) =>
               /\ panic_msg = "Callback computation " \o IdxText[iter + 1]
                                  \o " was not successful"
               /\ LoopCalls("promise_result")
                      = [j \in 1 .. iter + 1 |-> <<"promise_result", j - 1>>]
               /\ Len(LoopCalls("deserialize")) = iter
               /\ Len(bound[wrapper[pc].arg].vec) = iter
               /\ ~Invoked

\* Of two promise results the first is NotReady: the loop is aborted at
\* index 0 and the second result has never been fetched.
C28_Witness ==
    /\ InLoop
    /\ status = "aborted"
    /\ iter = 0
    /\ env.count = 2
    /\ env.results[0].tag = "NotReady"
    /\ env.results[1] = Unread
    /\ panic_msg = "Callback computation 0 was not successful"

\* C29: an invocation of an Init or InitIgnoreState method never encodes a
\* value nor hands one to the output channel, and never reads the state; it
\* leaves the state as it was unless it writes it, and when it returns it
\* has written the state exactly once, with the contract the constructor
\* made.  An invocation of a Regular method without a receiver neither reads
\* nor writes the state.
C29_ConstructorSilent ==
    status # "idle" =>
        /\ IsConstructor =>
               /\ ~Called("value_return") /\ ~Called("serialize")
               /\ output = <<>>
               /\ ~Called("state_read")
               /\ ~Called("state_write") => state = state0
               /\ Cardinality(Calls("state_write")) <= 1
               /\ status = "returned" =>
                      /\ Cardinality(Calls("state_write")) = 1
                      /\ state = [exists |-> TRUE, bytes |-> <<contract.v>>]
        /\ (method.method_type = "Regular" /\ ~method.receiver) =>
               /\ ~Called("state_read") /\ ~Called("state_write")
               /\ ~Called("state_exists")
               /\ state = state0

\* An Init constructor that declares its return type has returned: the
\* contract has state now and nothing is on the output channel.
C29_Witness ==
    /\ status = "returned"
    /\ method.method_type = "Init"
    /\ method.returns = "Type"
    /\ ~state0.exists
    /\ state.exists
    /\ output = <<>>
    /\ Calls("value_return") = {}

\* The slots of a path item that hold an operation.
FilledSlots(path_item) == {slot \in DOMAIN path_item : path_item[slot].some}

\* What C30 says of each state of a build.
C30_Build ==
    /\ gen_panic # <<"assertion failed">>
    /\ \A path \in DOMAIN operations :
           path = <<47>> \o operations[path].operation.summary.v
    /\ gen_status = "built" =>
           /\ DOMAIN openapi = DOMAIN operations
           /\ Cardinality(DOMAIN openapi) = Cardinality(DOMAIN operations)
           /\ \A path \in DOMAIN openapi :
                  /\ Cardinality(FilledSlots(openapi[path])) = 1
                  /\ FilledSlots(openapi[path]) \subseteq {"get", "post"}

\* What C30 says of each call of operation_add that does not panic.
C30_Insertion ==
    \A T \in MethodImpls :
        (AddStep(T) /\ gen_status' = "collecting") =>
            LET path == <<47>> \o T.NAME
            IN  /\ path \notin DOMAIN operations
                /\ DOMAIN operations' = DOMAIN operations \cup {path}
                /\ Cardinality(DOMAIN operations') = Cardinality(DOMAIN operations) + 1
                /\ \A q \in DOMAIN operations : operations'[q] = operations[q]
                /\ operations'[path].method = T.NEAR_METHOD
                /\ operations'[path].operation.summary = Some(T.NAME)

\* C30: every call of add_operation that does not panic adds one entry to
\* the path map, under the path of the operation, and leaves the others as
\* they were, so the map holds one entry per operation added, each under
\* its own path; the document into_openapi builds has the paths of the map
\* and no other, each path item holds exactly one operation, in the get or
\* in the post slot, and the assertion of into_openapi never fails.
C30_OneEntryPerOperation ==
    /\ []C30_Build
    /\ [][C30_Insertion]_vars

\* A document of two paths has been built from the two operations added,
\* the View method b and the InitIgnoreState method ::a.
C30_Witness ==
    /\ gen_status = "built"
    /\ DOMAIN operations = {<<47, 98>>, <<47, 58, 58, 97>>}
    /\ DOMAIN openapi = DOMAIN operations
    /\ operations[<<47, 98>>].method = "View"
    /\ operations[<<47, 58, 58, 97>>].method = "InitIgnoreState"
    /\ FilledSlots(openapi[<<47, 98>>]) = {"get"}
    /\ FilledSlots(openapi[<<47, 58, 58, 97>>]) = {"post"}

\* The contents of the JSON string text.
Contents(text) == SubSeq(text, 2, Len(text) - 1)

\* C26: to_string of a wrapper holding v writes the decimal text of v
\* between quotes, and from_str of that text returns a wrapper holding v,
\* for the values tried of each of Gas, U64, U128, I64 and I128, zero, the
\* least and the greatest among them; from_str returns a wrapper only for
\* a JSON string whose contents are a base-10 integer in the range of the
\* type, and an error without a value for every other text.
C26_JsonRoundTrip ==
    /\ num # NoNum =>
           /\ \E v \in IntValues(num.ty) :
                  v.words = num.words /\ json = <<34>> \o v.text \o <<34>>
           /\ de.done => de.ok /\ de.ty = num.ty /\ de.num = num
    /\ (num = NoNum /\ de.done) =>
           /\ de.ok =>
                  /\ IsJsonString(json)
                  /\ \E t \in IntTexts : t.text = Contents(json) /\ de.ty \in t.in_range
                  /\ de.num.ty = de.ty /\ Len(de.num.words) = size_of(de.ty)
           /\ ~de.ok => de.num = NoNum
           /\ (\A t \in IntTexts : t.text = Contents(json) => de.ty \notin t.in_range)
                  => ~de.ok
           /\ ~IsJsonString(json) => ~de.ok

\* The least i128 has gone through JSON and back.
C26_Witness ==
    /\ num.ty = "I128"
    /\ num.words = [i \in 1 .. 8 |-> IF i = 8 THEN 32768 ELSE 0]
    /\ Len(json) = 42 /\ json[2] = 45
    /\ de.done /\ de.ok
    /\ de.num = num

====
